---- MODULE Spec2Model ----
(***************************************************************************)
(* Model of src/main.py: _decode_part, extract_body_from_payload and       *)
(* fetch_unread_emails of the Gmail inbox summarizer.                      *)
(*                                                                         *)
(* Text is a sequence of code points, an encoded payload a sequence of     *)
(* one-character strings, a byte an integer in 0..255.  A call that may    *)
(* raise yields a record whose field raised tells whether it did.          *)
(***************************************************************************)
EXTENDS Integers, Sequences, FiniteSets, TLC

(***************************************************************************)
(* base64.urlsafe_b64decode(data.encode("utf-8"))                          *)
(***************************************************************************)

\* The standard base64 alphabet, in the order of its 6-bit values.
B64Alphabet ==
    << "A","B","C","D","E","F","G","H","I","J","K","L","M",
       "N","O","P","Q","R","S","T","U","V","W","X","Y","Z",
       "a","b","c","d","e","f","g","h","i","j","k","l","m",
       "n","o","p","q","r","s","t","u","v","w","x","y","z",
       "0","1","2","3","4","5","6","7","8","9","+","/" >>

\* urlsafe_b64decode first translates "-" to "+" and "_" to "/".
UrlsafeTranslate(c) ==
    IF c = "-" THEN "+" ELSE IF c = "_" THEN "/" ELSE c

IsB64Char(c) == \E k \in 1..64 : B64Alphabet[k] = c

\* The 6-bit value of an alphabet character.
B64Value(c) == (CHOOSE k \in 1..64 : B64Alphabet[k] = c) - 1

\* binascii.a2b_base64 without strict mode, one character at a time.
\* st = [quad_pos, leftchar, pads, out, done]: the decoder's registers.
A2bStep(st, ch) ==
    IF st.done THEN st
    ELSE IF ch = "="
    THEN IF st.quad_pos >= 2 /\ st.quad_pos + st.pads + 1 >= 4
         THEN [st EXCEPT !.pads = st.pads + 1, !.done = TRUE]
         ELSE IF st.quad_pos >= 2
              THEN [st EXCEPT !.pads = st.pads + 1]
              ELSE st
    ELSE IF ~IsB64Char(ch) THEN st
    ELSE LET v == B64Value(ch) IN
         CASE st.quad_pos = 0 ->
                [st EXCEPT !.pads = 0, !.quad_pos = 1, !.leftchar = v]
           [] st.quad_pos = 1 ->
                [st EXCEPT !.pads = 0, !.quad_pos = 2,
                           !.out = Append(st.out, st.leftchar * 4 + (v \div 16)),
                           !.leftchar = v % 16]
           [] st.quad_pos = 2 ->
                [st EXCEPT !.pads = 0, !.quad_pos = 3,
                           !.out = Append(st.out, st.leftchar * 16 + (v \div 4)),
                           !.leftchar = v % 4]
           [] OTHER ->
                [st EXCEPT !.pads = 0, !.quad_pos = 0,
                           !.out = Append(st.out, st.leftchar * 64 + v),
                           !.leftchar = 0]

RECURSIVE A2bLoop(_, _, _)
A2bLoop(st, s, i) ==
    IF i > Len(s) THEN st
    ELSE A2bLoop(A2bStep(st, UrlsafeTranslate(s[i])), s, i + 1)

\* The bytes the payload decodes to, or raised (binascii.Error) when the
\* input ends inside a quad that no padding completed.
urlsafe_b64decode(s) ==
    LET st == A2bLoop([quad_pos |-> 0, leftchar |-> 0, pads |-> 0,
                       out |-> << >>, done |-> FALSE], s, 1)
    IN  IF ~st.done /\ st.quad_pos # 0
        THEN [raised |-> TRUE, bytes |-> << >>]
        ELSE [raised |-> FALSE, bytes |-> st.out]

(***************************************************************************)
(* bytes.decode("utf-8", errors="ignore")                                  *)
(***************************************************************************)

IsCont(b) == b >= 128 /\ b < 192

\* One decoding step at position i of bytes b: [skip, emit] where skip is
\* the number of bytes consumed and emit the code points produced.
Utf8Step(b, i) ==
    LET n   == Len(b) - i + 1
        ch  == b[i]
        ch2 == b[i + 1]
        ch3 == b[i + 2]
        ch4 == b[i + 3]
        bad1 == [skip |-> 1, emit |-> << >>]
        bad2 == [skip |-> 2, emit |-> << >>]
        bad3 == [skip |-> 3, emit |-> << >>]
        rest == [skip |-> n, emit |-> << >>]
    IN  IF ch < 128 THEN [skip |-> 1, emit |-> <<ch>>]
        ELSE IF ch < 194 THEN bad1
        ELSE IF ch < 224 THEN
            IF n < 2 THEN rest
            ELSE IF ~IsCont(ch2) THEN bad1
            ELSE [skip |-> 2, emit |-> <<(ch % 32) * 64 + (ch2 % 64)>>]
        ELSE IF ch < 240 THEN
            IF n < 2 THEN rest
            ELSE IF ~IsCont(ch2)
                    \/ (IF ch2 < 160 THEN ch = 224 ELSE ch = 237) THEN bad1
            ELSE IF n < 3 THEN rest
            ELSE IF ~IsCont(ch3) THEN bad2
            ELSE [skip |-> 3,
                  emit |-> <<(ch % 16) * 4096 + (ch2 % 64) * 64 + (ch3 % 64)>>]
        ELSE IF ch < 245 THEN
            IF n < 2 THEN rest
            ELSE IF ~IsCont(ch2)
                    \/ (IF ch2 < 144 THEN ch = 240 ELSE ch = 244) THEN bad1
            ELSE IF n < 3 THEN rest
            ELSE IF ~IsCont(ch3) THEN bad2
            ELSE IF n < 4 THEN rest
            ELSE IF ~IsCont(ch4) THEN bad3
            ELSE [skip |-> 4,
                  emit |-> <<(ch % 8) * 262144 + (ch2 % 64) * 4096
                             + (ch3 % 64) * 64 + (ch4 % 64)>>]
        ELSE bad1

RECURSIVE Utf8Loop(_, _)
Utf8Loop(b, i) ==
    IF i > Len(b) THEN << >>
    ELSE LET r == Utf8Step(b, i) IN r.emit \o Utf8Loop(b, i + r.skip)

utf8_decode_ignore(b) == Utf8Loop(b, 1)

(***************************************************************************)
(* _decode_part                                                            *)
(***************************************************************************)

_decode_part(data) ==
    IF data = << >> THEN [raised |-> FALSE, text |-> << >>]
    ELSE LET decoded == urlsafe_b64decode(data) IN
         IF decoded.raised THEN [raised |-> TRUE, text |-> << >>]
         ELSE [raised |-> FALSE, text |-> utf8_decode_ignore(decoded.bytes)]

(***************************************************************************)
(* BeautifulSoup(html, "html.parser").get_text()                           *)
(*                                                                         *)
(* The markup is tokenized by html.parser.HTMLParser of Python 3.11, with  *)
(* convert_charrefs off as BeautifulSoup sets it; BeautifulSoup 4.10 and   *)
(* later builds the tree from the parser's events and get_text() joins     *)
(* the strings of the tree that are plain text or a CDATA section.  The    *)
(* strings inside script, style, template, rt and rp elements belong to    *)
(* classes of their own and are left out, and so are comments,             *)
(* declarations and processing instructions.                               *)
(*                                                                         *)
(* Markup is a sequence of code points.  White space, str.lower() and      *)
(* str.upper() follow the Unicode 14.0 tables of Python 3.11.               *)
(***************************************************************************)

Letters == (65..90) \cup (97..122)
Digits == 48..57
HexDigits == Digits \cup (65..70) \cup (97..102)
Alnum == Letters \cup Digits

IsLetter(c) == c \in Letters

\* What \s of the re module and str.strip() take as white space:
\* str.isspace().
WhiteSpace ==
    { 9, 10, 11, 12, 13, 28, 29, 30, 31, 32, 133, 160, 5760, 8192, 8193,
      8194, 8195, 8196, 8197, 8198, 8199, 8200, 8201, 8202, 8232, 8233, 8239,
      8287, 12288 }

\* [\t\n\r\f />\x00], the characters that end a tag name.
NameEnd == {0, 9, 10, 12, 13, 32, 47, 62}

\* BeautifulSoup.ASCII_SPACES
AsciiSpaces == {9, 10, 12, 13, 32}

\* ---- str.lower() and str.upper() ----
\*
\* The characters a case mapping changes, as runs <<first, last, step,
\* delta>>: every step-th character from first to last maps to itself plus
\* delta.  The characters that map to several are listed apart.

LowerRuns ==
    { <<65,90,1,32>>, <<192,214,1,32>>, <<216,222,1,32>>, <<256,302,2,1>>,
      <<306,310,2,1>>, <<313,327,2,1>>, <<330,374,2,1>>, <<376,376,1,-121>>,
      <<377,381,2,1>>, <<385,385,1,210>>, <<386,388,2,1>>, <<390,390,1,206>>,
      <<391,391,1,1>>, <<393,394,1,205>>, <<395,395,1,1>>, <<398,398,1,79>>,
      <<399,399,1,202>>, <<400,400,1,203>>, <<401,401,1,1>>,
      <<403,403,1,205>>, <<404,404,1,207>>, <<406,406,1,211>>,
      <<407,407,1,209>>, <<408,408,1,1>>, <<412,412,1,211>>,
      <<413,413,1,213>>, <<415,415,1,214>>, <<416,420,2,1>>,
      <<422,422,1,218>>, <<423,423,1,1>>, <<425,425,1,218>>, <<428,428,1,1>>,
      <<430,430,1,218>>, <<431,431,1,1>>, <<433,434,1,217>>, <<435,437,2,1>>,
      <<439,439,1,219>>, <<440,440,1,1>>, <<444,444,1,1>>, <<452,452,1,2>>,
      <<453,453,1,1>>, <<455,455,1,2>>, <<456,456,1,1>>, <<458,458,1,2>>,
      <<459,475,2,1>>, <<478,494,2,1>>, <<497,497,1,2>>, <<498,500,2,1>>,
      <<502,502,1,-97>>, <<503,503,1,-56>>, <<504,542,2,1>>,
      <<544,544,1,-130>>, <<546,562,2,1>>, <<570,570,1,10795>>,
      <<571,571,1,1>>, <<573,573,1,-163>>, <<574,574,1,10792>>,
      <<577,577,1,1>>, <<579,579,1,-195>>, <<580,580,1,69>>,
      <<581,581,1,71>>, <<582,590,2,1>>, <<880,882,2,1>>, <<886,886,1,1>>,
      <<895,895,1,116>>, <<902,902,1,38>>, <<904,906,1,37>>,
      <<908,908,1,64>>, <<910,911,1,63>>, <<913,929,1,32>>, <<931,939,1,32>>,
      <<975,975,1,8>>, <<984,1006,2,1>>, <<1012,1012,1,-60>>,
      <<1015,1015,1,1>>, <<1017,1017,1,-7>>, <<1018,1018,1,1>>,
      <<1021,1023,1,-130>>, <<1024,1039,1,80>>, <<1040,1071,1,32>>,
      <<1120,1152,2,1>>, <<1162,1214,2,1>>, <<1216,1216,1,15>>,
      <<1217,1229,2,1>>, <<1232,1326,2,1>>, <<1329,1366,1,48>>,
      <<4256,4293,1,7264>>, <<4295,4295,1,7264>>, <<4301,4301,1,7264>>,
      <<5024,5103,1,38864>>, <<5104,5109,1,8>>, <<7312,7354,1,-3008>>,
      <<7357,7359,1,-3008>>, <<7680,7828,2,1>>, <<7838,7838,1,-7615>>,
      <<7840,7934,2,1>>, <<7944,7951,1,-8>>, <<7960,7965,1,-8>>,
      <<7976,7983,1,-8>>, <<7992,7999,1,-8>>, <<8008,8013,1,-8>>,
      <<8025,8031,2,-8>>, <<8040,8047,1,-8>>, <<8072,8079,1,-8>>,
      <<8088,8095,1,-8>>, <<8104,8111,1,-8>>, <<8120,8121,1,-8>>,
      <<8122,8123,1,-74>>, <<8124,8124,1,-9>>, <<8136,8139,1,-86>>,
      <<8140,8140,1,-9>>, <<8152,8153,1,-8>>, <<8154,8155,1,-100>>,
      <<8168,8169,1,-8>>, <<8170,8171,1,-112>>, <<8172,8172,1,-7>>,
      <<8184,8185,1,-128>>, <<8186,8187,1,-126>>, <<8188,8188,1,-9>>,
      <<8486,8486,1,-7517>>, <<8490,8490,1,-8383>>, <<8491,8491,1,-8262>>,
      <<8498,8498,1,28>>, <<8544,8559,1,16>>, <<8579,8579,1,1>>,
      <<9398,9423,1,26>>, <<11264,11311,1,48>>, <<11360,11360,1,1>>,
      <<11362,11362,1,-10743>>, <<11363,11363,1,-3814>>,
      <<11364,11364,1,-10727>>, <<11367,11371,2,1>>,
      <<11373,11373,1,-10780>>, <<11374,11374,1,-10749>>,
      <<11375,11375,1,-10783>>, <<11376,11376,1,-10782>>,
      <<11378,11378,1,1>>, <<11381,11381,1,1>>, <<11390,11391,1,-10815>>,
      <<11392,11490,2,1>>, <<11499,11501,2,1>>, <<11506,11506,1,1>>,
      <<42560,42604,2,1>>, <<42624,42650,2,1>>, <<42786,42798,2,1>>,
      <<42802,42862,2,1>>, <<42873,42875,2,1>>, <<42877,42877,1,-35332>>,
      <<42878,42886,2,1>>, <<42891,42891,1,1>>, <<42893,42893,1,-42280>>,
      <<42896,42898,2,1>>, <<42902,42920,2,1>>, <<42922,42922,1,-42308>>,
      <<42923,42923,1,-42319>>, <<42924,42924,1,-42315>>,
      <<42925,42925,1,-42305>>, <<42926,42926,1,-42308>>,
      <<42928,42928,1,-42258>>, <<42929,42929,1,-42282>>,
      <<42930,42930,1,-42261>>, <<42931,42931,1,928>>, <<42932,42946,2,1>>,
      <<42948,42948,1,-48>>, <<42949,42949,1,-42307>>,
      <<42950,42950,1,-35384>>, <<42951,42953,2,1>>, <<42960,42960,1,1>>,
      <<42966,42968,2,1>>, <<42997,42997,1,1>>, <<65313,65338,1,32>>,
      <<66560,66599,1,40>>, <<66736,66771,1,40>>, <<66928,66938,1,39>>,
      <<66940,66954,1,39>>, <<66956,66962,1,39>>, <<66964,66965,1,39>>,
      <<68736,68786,1,64>>, <<71840,71871,1,32>>, <<93760,93791,1,32>>,
      <<125184,125217,1,34>> }

LowerSpecial ==
    { <<304,<<105,775>>>> }

UpperRuns ==
    { <<97,122,1,-32>>, <<181,181,1,743>>, <<224,246,1,-32>>,
      <<248,254,1,-32>>, <<255,255,1,121>>, <<257,303,2,-1>>,
      <<305,305,1,-232>>, <<307,311,2,-1>>, <<314,328,2,-1>>,
      <<331,375,2,-1>>, <<378,382,2,-1>>, <<383,383,1,-300>>,
      <<384,384,1,195>>, <<387,389,2,-1>>, <<392,392,1,-1>>,
      <<396,396,1,-1>>, <<402,402,1,-1>>, <<405,405,1,97>>, <<409,409,1,-1>>,
      <<410,410,1,163>>, <<414,414,1,130>>, <<417,421,2,-1>>,
      <<424,424,1,-1>>, <<429,429,1,-1>>, <<432,432,1,-1>>, <<436,438,2,-1>>,
      <<441,441,1,-1>>, <<445,445,1,-1>>, <<447,447,1,56>>, <<453,453,1,-1>>,
      <<454,454,1,-2>>, <<456,456,1,-1>>, <<457,457,1,-2>>, <<459,459,1,-1>>,
      <<460,460,1,-2>>, <<462,476,2,-1>>, <<477,477,1,-79>>,
      <<479,495,2,-1>>, <<498,498,1,-1>>, <<499,499,1,-2>>, <<501,501,1,-1>>,
      <<505,543,2,-1>>, <<547,563,2,-1>>, <<572,572,1,-1>>,
      <<575,576,1,10815>>, <<578,578,1,-1>>, <<583,591,2,-1>>,
      <<592,592,1,10783>>, <<593,593,1,10780>>, <<594,594,1,10782>>,
      <<595,595,1,-210>>, <<596,596,1,-206>>, <<598,599,1,-205>>,
      <<601,601,1,-202>>, <<603,603,1,-203>>, <<604,604,1,42319>>,
      <<608,608,1,-205>>, <<609,609,1,42315>>, <<611,611,1,-207>>,
      <<613,613,1,42280>>, <<614,614,1,42308>>, <<616,616,1,-209>>,
      <<617,617,1,-211>>, <<618,618,1,42308>>, <<619,619,1,10743>>,
      <<620,620,1,42305>>, <<623,623,1,-211>>, <<625,625,1,10749>>,
      <<626,626,1,-213>>, <<629,629,1,-214>>, <<637,637,1,10727>>,
      <<640,640,1,-218>>, <<642,642,1,42307>>, <<643,643,1,-218>>,
      <<647,647,1,42282>>, <<648,648,1,-218>>, <<649,649,1,-69>>,
      <<650,651,1,-217>>, <<652,652,1,-71>>, <<658,658,1,-219>>,
      <<669,669,1,42261>>, <<670,670,1,42258>>, <<837,837,1,84>>,
      <<881,883,2,-1>>, <<887,887,1,-1>>, <<891,893,1,130>>,
      <<940,940,1,-38>>, <<941,943,1,-37>>, <<945,961,1,-32>>,
      <<962,962,1,-31>>, <<963,971,1,-32>>, <<972,972,1,-64>>,
      <<973,974,1,-63>>, <<976,976,1,-62>>, <<977,977,1,-57>>,
      <<981,981,1,-47>>, <<982,982,1,-54>>, <<983,983,1,-8>>,
      <<985,1007,2,-1>>, <<1008,1008,1,-86>>, <<1009,1009,1,-80>>,
      <<1010,1010,1,7>>, <<1011,1011,1,-116>>, <<1013,1013,1,-96>>,
      <<1016,1016,1,-1>>, <<1019,1019,1,-1>>, <<1072,1103,1,-32>>,
      <<1104,1119,1,-80>>, <<1121,1153,2,-1>>, <<1163,1215,2,-1>>,
      <<1218,1230,2,-1>>, <<1231,1231,1,-15>>, <<1233,1327,2,-1>>,
      <<1377,1414,1,-48>>, <<4304,4346,1,3008>>, <<4349,4351,1,3008>>,
      <<5112,5117,1,-8>>, <<7296,7296,1,-6254>>, <<7297,7297,1,-6253>>,
      <<7298,7298,1,-6244>>, <<7299,7300,1,-6242>>, <<7301,7301,1,-6243>>,
      <<7302,7302,1,-6236>>, <<7303,7303,1,-6181>>, <<7304,7304,1,35266>>,
      <<7545,7545,1,35332>>, <<7549,7549,1,3814>>, <<7566,7566,1,35384>>,
      <<7681,7829,2,-1>>, <<7835,7835,1,-59>>, <<7841,7935,2,-1>>,
      <<7936,7943,1,8>>, <<7952,7957,1,8>>, <<7968,7975,1,8>>,
      <<7984,7991,1,8>>, <<8000,8005,1,8>>, <<8017,8023,2,8>>,
      <<8032,8039,1,8>>, <<8048,8049,1,74>>, <<8050,8053,1,86>>,
      <<8054,8055,1,100>>, <<8056,8057,1,128>>, <<8058,8059,1,112>>,
      <<8060,8061,1,126>>, <<8112,8113,1,8>>, <<8126,8126,1,-7205>>,
      <<8144,8145,1,8>>, <<8160,8161,1,8>>, <<8165,8165,1,7>>,
      <<8526,8526,1,-28>>, <<8560,8575,1,-16>>, <<8580,8580,1,-1>>,
      <<9424,9449,1,-26>>, <<11312,11359,1,-48>>, <<11361,11361,1,-1>>,
      <<11365,11365,1,-10795>>, <<11366,11366,1,-10792>>,
      <<11368,11372,2,-1>>, <<11379,11379,1,-1>>, <<11382,11382,1,-1>>,
      <<11393,11491,2,-1>>, <<11500,11502,2,-1>>, <<11507,11507,1,-1>>,
      <<11520,11557,1,-7264>>, <<11559,11559,1,-7264>>,
      <<11565,11565,1,-7264>>, <<42561,42605,2,-1>>, <<42625,42651,2,-1>>,
      <<42787,42799,2,-1>>, <<42803,42863,2,-1>>, <<42874,42876,2,-1>>,
      <<42879,42887,2,-1>>, <<42892,42892,1,-1>>, <<42897,42899,2,-1>>,
      <<42900,42900,1,48>>, <<42903,42921,2,-1>>, <<42933,42947,2,-1>>,
      <<42952,42954,2,-1>>, <<42961,42961,1,-1>>, <<42967,42969,2,-1>>,
      <<42998,42998,1,-1>>, <<43859,43859,1,-928>>, <<43888,43967,1,-38864>>,
      <<65345,65370,1,-32>>, <<66600,66639,1,-40>>, <<66776,66811,1,-40>>,
      <<66967,66977,1,-39>>, <<66979,66993,1,-39>>, <<66995,67001,1,-39>>,
      <<67003,67004,1,-39>>, <<68800,68850,1,-64>>, <<71872,71903,1,-32>>,
      <<93792,93823,1,-32>>, <<125218,125251,1,-34>> }

UpperSpecial ==
    { <<223,<<83,83>>>>, <<329,<<700,78>>>>, <<496,<<74,780>>>>,
      <<912,<<921,776,769>>>>, <<944,<<933,776,769>>>>,
      <<1415,<<1333,1362>>>>, <<7830,<<72,817>>>>, <<7831,<<84,776>>>>,
      <<7832,<<87,778>>>>, <<7833,<<89,778>>>>, <<7834,<<65,702>>>>,
      <<8016,<<933,787>>>>, <<8018,<<933,787,768>>>>,
      <<8020,<<933,787,769>>>>, <<8022,<<933,787,834>>>>,
      <<8064,<<7944,921>>>>, <<8065,<<7945,921>>>>, <<8066,<<7946,921>>>>,
      <<8067,<<7947,921>>>>, <<8068,<<7948,921>>>>, <<8069,<<7949,921>>>>,
      <<8070,<<7950,921>>>>, <<8071,<<7951,921>>>>, <<8072,<<7944,921>>>>,
      <<8073,<<7945,921>>>>, <<8074,<<7946,921>>>>, <<8075,<<7947,921>>>>,
      <<8076,<<7948,921>>>>, <<8077,<<7949,921>>>>, <<8078,<<7950,921>>>>,
      <<8079,<<7951,921>>>>, <<8080,<<7976,921>>>>, <<8081,<<7977,921>>>>,
      <<8082,<<7978,921>>>>, <<8083,<<7979,921>>>>, <<8084,<<7980,921>>>>,
      <<8085,<<7981,921>>>>, <<8086,<<7982,921>>>>, <<8087,<<7983,921>>>>,
      <<8088,<<7976,921>>>>, <<8089,<<7977,921>>>>, <<8090,<<7978,921>>>>,
      <<8091,<<7979,921>>>>, <<8092,<<7980,921>>>>, <<8093,<<7981,921>>>>,
      <<8094,<<7982,921>>>>, <<8095,<<7983,921>>>>, <<8096,<<8040,921>>>>,
      <<8097,<<8041,921>>>>, <<8098,<<8042,921>>>>, <<8099,<<8043,921>>>>,
      <<8100,<<8044,921>>>>, <<8101,<<8045,921>>>>, <<8102,<<8046,921>>>>,
      <<8103,<<8047,921>>>>, <<8104,<<8040,921>>>>, <<8105,<<8041,921>>>>,
      <<8106,<<8042,921>>>>, <<8107,<<8043,921>>>>, <<8108,<<8044,921>>>>,
      <<8109,<<8045,921>>>>, <<8110,<<8046,921>>>>, <<8111,<<8047,921>>>>,
      <<8114,<<8122,921>>>>, <<8115,<<913,921>>>>, <<8116,<<902,921>>>>,
      <<8118,<<913,834>>>>, <<8119,<<913,834,921>>>>, <<8124,<<913,921>>>>,
      <<8130,<<8138,921>>>>, <<8131,<<919,921>>>>, <<8132,<<905,921>>>>,
      <<8134,<<919,834>>>>, <<8135,<<919,834,921>>>>, <<8140,<<919,921>>>>,
      <<8146,<<921,776,768>>>>, <<8147,<<921,776,769>>>>,
      <<8150,<<921,834>>>>, <<8151,<<921,776,834>>>>,
      <<8162,<<933,776,768>>>>, <<8163,<<933,776,769>>>>,
      <<8164,<<929,787>>>>, <<8166,<<933,834>>>>, <<8167,<<933,776,834>>>>,
      <<8178,<<8186,921>>>>, <<8179,<<937,921>>>>, <<8180,<<911,921>>>>,
      <<8182,<<937,834>>>>, <<8183,<<937,834,921>>>>, <<8188,<<937,921>>>>,
      <<64256,<<70,70>>>>, <<64257,<<70,73>>>>, <<64258,<<70,76>>>>,
      <<64259,<<70,70,73>>>>, <<64260,<<70,70,76>>>>, <<64261,<<83,84>>>>,
      <<64262,<<83,84>>>>, <<64275,<<1348,1350>>>>, <<64276,<<1348,1333>>>>,
      <<64277,<<1348,1339>>>>, <<64278,<<1358,1350>>>>,
      <<64279,<<1348,1341>>>> }

\* The cased characters that are not case-ignorable, and the case-ignorable
\* characters, as ranges <<first, last>>: what lower() looks at around a
\* capital sigma.
CasedRuns ==
    { <<65,90>>, <<97,122>>, <<170,170>>, <<181,181>>, <<186,186>>,
      <<192,214>>, <<216,246>>, <<248,442>>, <<444,447>>, <<452,659>>,
      <<661,687>>, <<880,883>>, <<886,887>>, <<891,893>>, <<895,895>>,
      <<902,902>>, <<904,906>>, <<908,908>>, <<910,929>>, <<931,1013>>,
      <<1015,1153>>, <<1162,1327>>, <<1329,1366>>, <<1376,1416>>,
      <<4256,4293>>, <<4295,4295>>, <<4301,4301>>, <<4304,4346>>,
      <<4349,4351>>, <<5024,5109>>, <<5112,5117>>, <<7296,7304>>,
      <<7312,7354>>, <<7357,7359>>, <<7424,7467>>, <<7531,7543>>,
      <<7545,7578>>, <<7680,7957>>, <<7960,7965>>, <<7968,8005>>,
      <<8008,8013>>, <<8016,8023>>, <<8025,8025>>, <<8027,8027>>,
      <<8029,8029>>, <<8031,8061>>, <<8064,8116>>, <<8118,8124>>,
      <<8126,8126>>, <<8130,8132>>, <<8134,8140>>, <<8144,8147>>,
      <<8150,8155>>, <<8160,8172>>, <<8178,8180>>, <<8182,8188>>,
      <<8450,8450>>, <<8455,8455>>, <<8458,8467>>, <<8469,8469>>,
      <<8473,8477>>, <<8484,8484>>, <<8486,8486>>, <<8488,8488>>,
      <<8490,8493>>, <<8495,8500>>, <<8505,8505>>, <<8508,8511>>,
      <<8517,8521>>, <<8526,8526>>, <<8544,8575>>, <<8579,8580>>,
      <<9398,9449>>, <<11264,11387>>, <<11390,11492>>, <<11499,11502>>,
      <<11506,11507>>, <<11520,11557>>, <<11559,11559>>, <<11565,11565>>,
      <<42560,42605>>, <<42624,42651>>, <<42786,42863>>, <<42865,42887>>,
      <<42891,42894>>, <<42896,42954>>, <<42960,42961>>, <<42963,42963>>,
      <<42965,42969>>, <<42997,42998>>, <<43002,43002>>, <<43824,43866>>,
      <<43872,43880>>, <<43888,43967>>, <<64256,64262>>, <<64275,64279>>,
      <<65313,65338>>, <<65345,65370>>, <<66560,66639>>, <<66736,66771>>,
      <<66776,66811>>, <<66928,66938>>, <<66940,66954>>, <<66956,66962>>,
      <<66964,66965>>, <<66967,66977>>, <<66979,66993>>, <<66995,67001>>,
      <<67003,67004>>, <<68736,68786>>, <<68800,68850>>, <<71840,71903>>,
      <<93760,93823>>, <<119808,119892>>, <<119894,119964>>,
      <<119966,119967>>, <<119970,119970>>, <<119973,119974>>,
      <<119977,119980>>, <<119982,119993>>, <<119995,119995>>,
      <<119997,120003>>, <<120005,120069>>, <<120071,120074>>,
      <<120077,120084>>, <<120086,120092>>, <<120094,120121>>,
      <<120123,120126>>, <<120128,120132>>, <<120134,120134>>,
      <<120138,120144>>, <<120146,120485>>, <<120488,120512>>,
      <<120514,120538>>, <<120540,120570>>, <<120572,120596>>,
      <<120598,120628>>, <<120630,120654>>, <<120656,120686>>,
      <<120688,120712>>, <<120714,120744>>, <<120746,120770>>,
      <<120772,120779>>, <<122624,122633>>, <<122635,122654>>,
      <<125184,125251>>, <<127280,127305>>, <<127312,127337>>,
      <<127344,127369>> }

CaseIgnorableRuns ==
    { <<39,39>>, <<46,46>>, <<58,58>>, <<94,94>>, <<96,96>>, <<168,168>>,
      <<173,173>>, <<175,175>>, <<180,180>>, <<183,184>>, <<688,879>>,
      <<884,885>>, <<890,890>>, <<900,901>>, <<903,903>>, <<1155,1161>>,
      <<1369,1369>>, <<1375,1375>>, <<1425,1469>>, <<1471,1471>>,
      <<1473,1474>>, <<1476,1477>>, <<1479,1479>>, <<1524,1524>>,
      <<1536,1541>>, <<1552,1562>>, <<1564,1564>>, <<1600,1600>>,
      <<1611,1631>>, <<1648,1648>>, <<1750,1757>>, <<1759,1768>>,
      <<1770,1773>>, <<1807,1807>>, <<1809,1809>>, <<1840,1866>>,
      <<1958,1968>>, <<2027,2037>>, <<2042,2042>>, <<2045,2045>>,
      <<2070,2093>>, <<2137,2139>>, <<2184,2184>>, <<2192,2193>>,
      <<2200,2207>>, <<2249,2306>>, <<2362,2362>>, <<2364,2364>>,
      <<2369,2376>>, <<2381,2381>>, <<2385,2391>>, <<2402,2403>>,
      <<2417,2417>>, <<2433,2433>>, <<2492,2492>>, <<2497,2500>>,
      <<2509,2509>>, <<2530,2531>>, <<2558,2558>>, <<2561,2562>>,
      <<2620,2620>>, <<2625,2626>>, <<2631,2632>>, <<2635,2637>>,
      <<2641,2641>>, <<2672,2673>>, <<2677,2677>>, <<2689,2690>>,
      <<2748,2748>>, <<2753,2757>>, <<2759,2760>>, <<2765,2765>>,
      <<2786,2787>>, <<2810,2815>>, <<2817,2817>>, <<2876,2876>>,
      <<2879,2879>>, <<2881,2884>>, <<2893,2893>>, <<2901,2902>>,
      <<2914,2915>>, <<2946,2946>>, <<3008,3008>>, <<3021,3021>>,
      <<3072,3072>>, <<3076,3076>>, <<3132,3132>>, <<3134,3136>>,
      <<3142,3144>>, <<3146,3149>>, <<3157,3158>>, <<3170,3171>>,
      <<3201,3201>>, <<3260,3260>>, <<3263,3263>>, <<3270,3270>>,
      <<3276,3277>>, <<3298,3299>>, <<3328,3329>>, <<3387,3388>>,
      <<3393,3396>>, <<3405,3405>>, <<3426,3427>>, <<3457,3457>>,
      <<3530,3530>>, <<3538,3540>>, <<3542,3542>>, <<3633,3633>>,
      <<3636,3642>>, <<3654,3662>>, <<3761,3761>>, <<3764,3772>>,
      <<3782,3782>>, <<3784,3789>>, <<3864,3865>>, <<3893,3893>>,
      <<3895,3895>>, <<3897,3897>>, <<3953,3966>>, <<3968,3972>>,
      <<3974,3975>>, <<3981,3991>>, <<3993,4028>>, <<4038,4038>>,
      <<4141,4144>>, <<4146,4151>>, <<4153,4154>>, <<4157,4158>>,
      <<4184,4185>>, <<4190,4192>>, <<4209,4212>>, <<4226,4226>>,
      <<4229,4230>>, <<4237,4237>>, <<4253,4253>>, <<4348,4348>>,
      <<4957,4959>>, <<5906,5908>>, <<5938,5939>>, <<5970,5971>>,
      <<6002,6003>>, <<6068,6069>>, <<6071,6077>>, <<6086,6086>>,
      <<6089,6099>>, <<6103,6103>>, <<6109,6109>>, <<6155,6159>>,
      <<6211,6211>>, <<6277,6278>>, <<6313,6313>>, <<6432,6434>>,
      <<6439,6440>>, <<6450,6450>>, <<6457,6459>>, <<6679,6680>>,
      <<6683,6683>>, <<6742,6742>>, <<6744,6750>>, <<6752,6752>>,
      <<6754,6754>>, <<6757,6764>>, <<6771,6780>>, <<6783,6783>>,
      <<6823,6823>>, <<6832,6862>>, <<6912,6915>>, <<6964,6964>>,
      <<6966,6970>>, <<6972,6972>>, <<6978,6978>>, <<7019,7027>>,
      <<7040,7041>>, <<7074,7077>>, <<7080,7081>>, <<7083,7085>>,
      <<7142,7142>>, <<7144,7145>>, <<7149,7149>>, <<7151,7153>>,
      <<7212,7219>>, <<7222,7223>>, <<7288,7293>>, <<7376,7378>>,
      <<7380,7392>>, <<7394,7400>>, <<7405,7405>>, <<7412,7412>>,
      <<7416,7417>>, <<7468,7530>>, <<7544,7544>>, <<7579,7679>>,
      <<8125,8125>>, <<8127,8129>>, <<8141,8143>>, <<8157,8159>>,
      <<8173,8175>>, <<8189,8190>>, <<8203,8207>>, <<8216,8217>>,
      <<8228,8228>>, <<8231,8231>>, <<8234,8238>>, <<8288,8292>>,
      <<8294,8303>>, <<8305,8305>>, <<8319,8319>>, <<8336,8348>>,
      <<8400,8432>>, <<11388,11389>>, <<11503,11505>>, <<11631,11631>>,
      <<11647,11647>>, <<11744,11775>>, <<11823,11823>>, <<12293,12293>>,
      <<12330,12333>>, <<12337,12341>>, <<12347,12347>>, <<12441,12446>>,
      <<12540,12542>>, <<40981,40981>>, <<42232,42237>>, <<42508,42508>>,
      <<42607,42610>>, <<42612,42621>>, <<42623,42623>>, <<42652,42655>>,
      <<42736,42737>>, <<42752,42785>>, <<42864,42864>>, <<42888,42890>>,
      <<42994,42996>>, <<43000,43001>>, <<43010,43010>>, <<43014,43014>>,
      <<43019,43019>>, <<43045,43046>>, <<43052,43052>>, <<43204,43205>>,
      <<43232,43249>>, <<43263,43263>>, <<43302,43309>>, <<43335,43345>>,
      <<43392,43394>>, <<43443,43443>>, <<43446,43449>>, <<43452,43453>>,
      <<43471,43471>>, <<43493,43494>>, <<43561,43566>>, <<43569,43570>>,
      <<43573,43574>>, <<43587,43587>>, <<43596,43596>>, <<43632,43632>>,
      <<43644,43644>>, <<43696,43696>>, <<43698,43700>>, <<43703,43704>>,
      <<43710,43711>>, <<43713,43713>>, <<43741,43741>>, <<43756,43757>>,
      <<43763,43764>>, <<43766,43766>>, <<43867,43871>>, <<43881,43883>>,
      <<44005,44005>>, <<44008,44008>>, <<44013,44013>>, <<64286,64286>>,
      <<64434,64450>>, <<65024,65039>>, <<65043,65043>>, <<65056,65071>>,
      <<65106,65106>>, <<65109,65109>>, <<65279,65279>>, <<65287,65287>>,
      <<65294,65294>>, <<65306,65306>>, <<65342,65342>>, <<65344,65344>>,
      <<65392,65392>>, <<65438,65439>>, <<65507,65507>>, <<65529,65531>>,
      <<66045,66045>>, <<66272,66272>>, <<66422,66426>>, <<67456,67461>>,
      <<67463,67504>>, <<67506,67514>>, <<68097,68099>>, <<68101,68102>>,
      <<68108,68111>>, <<68152,68154>>, <<68159,68159>>, <<68325,68326>>,
      <<68900,68903>>, <<69291,69292>>, <<69446,69456>>, <<69506,69509>>,
      <<69633,69633>>, <<69688,69702>>, <<69744,69744>>, <<69747,69748>>,
      <<69759,69761>>, <<69811,69814>>, <<69817,69818>>, <<69821,69821>>,
      <<69826,69826>>, <<69837,69837>>, <<69888,69890>>, <<69927,69931>>,
      <<69933,69940>>, <<70003,70003>>, <<70016,70017>>, <<70070,70078>>,
      <<70089,70092>>, <<70095,70095>>, <<70191,70193>>, <<70196,70196>>,
      <<70198,70199>>, <<70206,70206>>, <<70367,70367>>, <<70371,70378>>,
      <<70400,70401>>, <<70459,70460>>, <<70464,70464>>, <<70502,70508>>,
      <<70512,70516>>, <<70712,70719>>, <<70722,70724>>, <<70726,70726>>,
      <<70750,70750>>, <<70835,70840>>, <<70842,70842>>, <<70847,70848>>,
      <<70850,70851>>, <<71090,71093>>, <<71100,71101>>, <<71103,71104>>,
      <<71132,71133>>, <<71219,71226>>, <<71229,71229>>, <<71231,71232>>,
      <<71339,71339>>, <<71341,71341>>, <<71344,71349>>, <<71351,71351>>,
      <<71453,71455>>, <<71458,71461>>, <<71463,71467>>, <<71727,71735>>,
      <<71737,71738>>, <<71995,71996>>, <<71998,71998>>, <<72003,72003>>,
      <<72148,72151>>, <<72154,72155>>, <<72160,72160>>, <<72193,72202>>,
      <<72243,72248>>, <<72251,72254>>, <<72263,72263>>, <<72273,72278>>,
      <<72281,72283>>, <<72330,72342>>, <<72344,72345>>, <<72752,72758>>,
      <<72760,72765>>, <<72767,72767>>, <<72850,72871>>, <<72874,72880>>,
      <<72882,72883>>, <<72885,72886>>, <<73009,73014>>, <<73018,73018>>,
      <<73020,73021>>, <<73023,73029>>, <<73031,73031>>, <<73104,73105>>,
      <<73109,73109>>, <<73111,73111>>, <<73459,73460>>, <<78896,78904>>,
      <<92912,92916>>, <<92976,92982>>, <<92992,92995>>, <<94031,94031>>,
      <<94095,94111>>, <<94176,94177>>, <<94179,94180>>, <<110576,110579>>,
      <<110581,110587>>, <<110589,110590>>, <<113821,113822>>,
      <<113824,113827>>, <<118528,118573>>, <<118576,118598>>,
      <<119143,119145>>, <<119155,119170>>, <<119173,119179>>,
      <<119210,119213>>, <<119362,119364>>, <<121344,121398>>,
      <<121403,121452>>, <<121461,121461>>, <<121476,121476>>,
      <<121499,121503>>, <<121505,121519>>, <<122880,122886>>,
      <<122888,122904>>, <<122907,122913>>, <<122915,122916>>,
      <<122918,122922>>, <<123184,123197>>, <<123566,123566>>,
      <<123628,123631>>, <<125136,125142>>, <<125252,125259>>,
      <<127995,127999>>, <<917505,917505>>, <<917536,917631>>,
      <<917760,917999>> }

InRuns(c, runs) == \E r \in runs : r[1] <= c /\ c <= r[2]

\* The characters a case mapping makes of the character c.
MapPoint(c, runs, special) ==
    IF \E e \in special : e[1] = c
    THEN (CHOOSE e \in special : e[1] = c)[2]
    ELSE IF \E r \in runs : r[1] <= c /\ c <= r[2] /\ (c - r[1]) % r[3] = 0
    THEN << c + (CHOOSE r \in runs :
                    r[1] <= c /\ c <= r[2] /\ (c - r[1]) % r[3] = 0)[4] >>
    ELSE << c >>

\* chr(c).lower() and chr(c).upper()
LowerPoint(c) == MapPoint(c, LowerRuns, LowerSpecial)
UpperPoint(c) == MapPoint(c, UpperRuns, UpperSpecial)

\* Whether the capital sigma at k ends a word: the nearest character
\* before it that is not case-ignorable is cased, and the nearest one after
\* it, when there is one, is not.
FinalSigma(s, k) ==
    LET before == {j \in 1..(k - 1) : ~InRuns(s[j], CaseIgnorableRuns)}
        after == {j \in (k + 1)..Len(s) : ~InRuns(s[j], CaseIgnorableRuns)}
    IN  /\ before # {}
        /\ InRuns(s[CHOOSE j \in before : \A m \in before : m <= j], CasedRuns)
        /\ \/ after = {}
           \/ ~InRuns(s[CHOOSE j \in after : \A m \in after : j <= m], CasedRuns)

RECURSIVE LowerFrom(_, _)
LowerFrom(s, k) ==
    IF k > Len(s) THEN << >>
    ELSE (IF s[k] = 931 /\ FinalSigma(s, k) THEN <<962>> ELSE LowerPoint(s[k]))
         \o LowerFrom(s, k + 1)

RECURSIVE UpperFrom(_, _)
UpperFrom(s, k) ==
    IF k > Len(s) THEN << >> ELSE UpperPoint(s[k]) \o UpperFrom(s, k + 1)

\* str.lower() and str.upper()
LowerPoints(s) == LowerFrom(s, 1)
UpperPoints(s) == UpperFrom(s, 1)

\* The characters other than the two ASCII letters that a lower-case ASCII
\* letter of a pattern compiled with re.I matches, as <<letter, character>>.
IgnoreCaseExtra == { <<105, 304>>, <<105, 305>>, <<107, 8490>>, <<115, 383>> }

\* int() refuses a decimal string of more digits: sys.get_int_max_str_digits()
MaxStrDigits == 4300

\* HTMLParser.CDATA_CONTENT_ELEMENTS: script, style
CdataContentElements == { <<115,99,114,105,112,116>>, <<115,116,121,108,101>> }

\* HTMLTreeBuilder.empty_element_tags: area, base, br, col, embed, hr, img,
\* input, keygen, link, menuitem, meta, param, source, track, wbr, basefont,
\* bgsound, command, frame, image, isindex, nextid, spacer
EmptyElementTags ==
    { <<97,114,101,97>>, <<98,97,115,101>>, <<98,114>>, <<99,111,108>>,
      <<101,109,98,101,100>>, <<104,114>>, <<105,109,103>>,
      <<105,110,112,117,116>>, <<107,101,121,103,101,110>>,
      <<108,105,110,107>>, <<109,101,110,117,105,116,101,109>>,
      <<109,101,116,97>>, <<112,97,114,97,109>>, <<115,111,117,114,99,101>>,
      <<116,114,97,99,107>>, <<119,98,114>>,
      <<98,97,115,101,102,111,110,116>>, <<98,103,115,111,117,110,100>>,
      <<99,111,109,109,97,110,100>>, <<102,114,97,109,101>>,
      <<105,109,97,103,101>>, <<105,115,105,110,100,101,120>>,
      <<110,101,120,116,105,100>>, <<115,112,97,99,101,114>> }

\* HTMLTreeBuilder.DEFAULT_STRING_CONTAINERS: rt, rp, style, script, template
StringContainers ==
    { <<114,116>>, <<114,112>>, <<115,116,121,108,101>>, <<115,99,114,105,112,116>>,
      <<116,101,109,112,108,97,116,101>> }

\* HTMLTreeBuilder.preserve_whitespace_tags: pre, textarea
PreserveWhitespaceTags == { <<112,114,101>>, <<116,101,120,116,97,114,101,97>> }

\* The marked sections closed by "]]>": temp, cdata, ignore, include, rcdata
StandardSections ==
    { <<116,101,109,112>>, <<99,100,97,116,97>>, <<105,103,110,111,114,101>>,
      <<105,110,99,108,117,100,101>>, <<114,99,100,97,116,97>> }

\* The marked sections closed by "]>": if, else, endif
OfficeSections == { <<105,102>>, <<101,108,115,101>>, <<101,110,100,105,102>> }

\* The bytes windows-1252 maps to another code point, each with that code
\* point; it leaves 129, 141, 143, 144 and 157 undefined.
Windows1252 ==
    { <<128,8364>>, <<130,8218>>, <<131,402>>, <<132,8222>>, <<133,8230>>,
      <<134,8224>>, <<135,8225>>, <<136,710>>, <<137,8240>>, <<138,352>>,
      <<139,8249>>, <<140,338>>, <<142,381>>, <<145,8216>>, <<146,8217>>,
      <<147,8220>>, <<148,8221>>, <<149,8226>>, <<150,8211>>, <<151,8212>>,
      <<152,732>>, <<153,8482>>, <<154,353>>, <<155,8250>>, <<156,339>>,
      <<158,382>>, <<159,376>> }

\* sys.maxunicode
MaxCodePoint == 1114111

\* EntitySubstitution.HTML_ENTITY_TO_CHARACTER: the names of html.entities.html5
\* without their semicolon, each with the characters it stands for.
HtmlEntities ==
    { <<"AElig",<<198>>>>, <<"AMP",<<38>>>>, <<"Aacute",<<193>>>>,
      <<"Abreve",<<258>>>>, <<"Acirc",<<194>>>>, <<"Acy",<<1040>>>>,
      <<"Afr",<<120068>>>>, <<"Agrave",<<192>>>>, <<"Alpha",<<913>>>>,
      <<"Amacr",<<256>>>>, <<"And",<<10835>>>>, <<"Aogon",<<260>>>>,
      <<"Aopf",<<120120>>>>, <<"ApplyFunction",<<8289>>>>,
      <<"Aring",<<197>>>>, <<"Ascr",<<119964>>>>, <<"Assign",<<8788>>>>,
      <<"Atilde",<<195>>>>, <<"Auml",<<196>>>>, <<"Backslash",<<8726>>>>,
      <<"Barv",<<10983>>>>, <<"Barwed",<<8966>>>>, <<"Bcy",<<1041>>>>,
      <<"Because",<<8757>>>>, <<"Bernoullis",<<8492>>>>, <<"Beta",<<914>>>>,
      <<"Bfr",<<120069>>>>, <<"Bopf",<<120121>>>>, <<"Breve",<<728>>>>,
      <<"Bscr",<<8492>>>>, <<"Bumpeq",<<8782>>>>, <<"CHcy",<<1063>>>>,
      <<"COPY",<<169>>>>, <<"Cacute",<<262>>>>, <<"Cap",<<8914>>>>,
      <<"CapitalDifferentialD",<<8517>>>>, <<"Cayleys",<<8493>>>>,
      <<"Ccaron",<<268>>>>, <<"Ccedil",<<199>>>>, <<"Ccirc",<<264>>>>,
      <<"Cconint",<<8752>>>>, <<"Cdot",<<266>>>>, <<"Cedilla",<<184>>>>,
      <<"CenterDot",<<183>>>>, <<"Cfr",<<8493>>>>, <<"Chi",<<935>>>>,
      <<"CircleDot",<<8857>>>>, <<"CircleMinus",<<8854>>>>,
      <<"CirclePlus",<<8853>>>>, <<"CircleTimes",<<8855>>>>,
      <<"ClockwiseContourIntegral",<<8754>>>>,
      <<"CloseCurlyDoubleQuote",<<8221>>>>, <<"CloseCurlyQuote",<<8217>>>>,
      <<"Colon",<<8759>>>>, <<"Colone",<<10868>>>>, <<"Congruent",<<8801>>>>,
      <<"Conint",<<8751>>>>, <<"ContourIntegral",<<8750>>>>,
      <<"Copf",<<8450>>>>, <<"Coproduct",<<8720>>>>,
      <<"CounterClockwiseContourIntegral",<<8755>>>>, <<"Cross",<<10799>>>>,
      <<"Cscr",<<119966>>>>, <<"Cup",<<8915>>>>, <<"CupCap",<<8781>>>>,
      <<"DD",<<8517>>>>, <<"DDotrahd",<<10513>>>>, <<"DJcy",<<1026>>>>,
      <<"DScy",<<1029>>>>, <<"DZcy",<<1039>>>>, <<"Dagger",<<8225>>>>,
      <<"Darr",<<8609>>>>, <<"Dashv",<<10980>>>>, <<"Dcaron",<<270>>>>,
      <<"Dcy",<<1044>>>>, <<"Del",<<8711>>>>, <<"Delta",<<916>>>>,
      <<"Dfr",<<120071>>>>, <<"DiacriticalAcute",<<180>>>>,
      <<"DiacriticalDot",<<729>>>>, <<"DiacriticalDoubleAcute",<<733>>>>,
      <<"DiacriticalGrave",<<96>>>>, <<"DiacriticalTilde",<<732>>>>,
      <<"Diamond",<<8900>>>>, <<"DifferentialD",<<8518>>>>,
      <<"Dopf",<<120123>>>>, <<"Dot",<<168>>>>, <<"DotDot",<<8412>>>>,
      <<"DotEqual",<<8784>>>>, <<"DoubleContourIntegral",<<8751>>>>,
      <<"DoubleDot",<<168>>>>, <<"DoubleDownArrow",<<8659>>>>,
      <<"DoubleLeftArrow",<<8656>>>>, <<"DoubleLeftRightArrow",<<8660>>>>,
      <<"DoubleLeftTee",<<10980>>>>, <<"DoubleLongLeftArrow",<<10232>>>>,
      <<"DoubleLongLeftRightArrow",<<10234>>>>,
      <<"DoubleLongRightArrow",<<10233>>>>, <<"DoubleRightArrow",<<8658>>>>,
      <<"DoubleRightTee",<<8872>>>>, <<"DoubleUpArrow",<<8657>>>>,
      <<"DoubleUpDownArrow",<<8661>>>>, <<"DoubleVerticalBar",<<8741>>>>,
      <<"DownArrow",<<8595>>>>, <<"DownArrowBar",<<10515>>>>,
      <<"DownArrowUpArrow",<<8693>>>>, <<"DownBreve",<<785>>>>,
      <<"DownLeftRightVector",<<10576>>>>, <<"DownLeftTeeVector",<<10590>>>>,
      <<"DownLeftVector",<<8637>>>>, <<"DownLeftVectorBar",<<10582>>>>,
      <<"DownRightTeeVector",<<10591>>>>, <<"DownRightVector",<<8641>>>>,
      <<"DownRightVectorBar",<<10583>>>>, <<"DownTee",<<8868>>>>,
      <<"DownTeeArrow",<<8615>>>>, <<"Downarrow",<<8659>>>>,
      <<"Dscr",<<119967>>>>, <<"Dstrok",<<272>>>>, <<"ENG",<<330>>>>,
      <<"ETH",<<208>>>>, <<"Eacute",<<201>>>>, <<"Ecaron",<<282>>>>,
      <<"Ecirc",<<202>>>>, <<"Ecy",<<1069>>>>, <<"Edot",<<278>>>>,
      <<"Efr",<<120072>>>>, <<"Egrave",<<200>>>>, <<"Element",<<8712>>>>,
      <<"Emacr",<<274>>>>, <<"EmptySmallSquare",<<9723>>>>,
      <<"EmptyVerySmallSquare",<<9643>>>>, <<"Eogon",<<280>>>>,
      <<"Eopf",<<120124>>>>, <<"Epsilon",<<917>>>>, <<"Equal",<<10869>>>>,
      <<"EqualTilde",<<8770>>>>, <<"Equilibrium",<<8652>>>>,
      <<"Escr",<<8496>>>>, <<"Esim",<<10867>>>>, <<"Eta",<<919>>>>,
      <<"Euml",<<203>>>>, <<"Exists",<<8707>>>>, <<"ExponentialE",<<8519>>>>,
      <<"Fcy",<<1060>>>>, <<"Ffr",<<120073>>>>,
      <<"FilledSmallSquare",<<9724>>>>, <<"FilledVerySmallSquare",<<9642>>>>,
      <<"Fopf",<<120125>>>>, <<"ForAll",<<8704>>>>, <<"Fouriertrf",<<8497>>>>,
      <<"Fscr",<<8497>>>>, <<"GJcy",<<1027>>>>, <<"GT",<<62>>>>,
      <<"Gamma",<<915>>>>, <<"Gammad",<<988>>>>, <<"Gbreve",<<286>>>>,
      <<"Gcedil",<<290>>>>, <<"Gcirc",<<284>>>>, <<"Gcy",<<1043>>>>,
      <<"Gdot",<<288>>>>, <<"Gfr",<<120074>>>>, <<"Gg",<<8921>>>>,
      <<"Gopf",<<120126>>>>, <<"GreaterEqual",<<8805>>>>,
      <<"GreaterEqualLess",<<8923>>>>, <<"GreaterFullEqual",<<8807>>>>,
      <<"GreaterGreater",<<10914>>>>, <<"GreaterLess",<<8823>>>>,
      <<"GreaterSlantEqual",<<10878>>>>, <<"GreaterTilde",<<8819>>>>,
      <<"Gscr",<<119970>>>>, <<"Gt",<<8811>>>>, <<"HARDcy",<<1066>>>>,
      <<"Hacek",<<711>>>>, <<"Hat",<<94>>>>, <<"Hcirc",<<292>>>>,
      <<"Hfr",<<8460>>>>, <<"HilbertSpace",<<8459>>>>, <<"Hopf",<<8461>>>>,
      <<"HorizontalLine",<<9472>>>>, <<"Hscr",<<8459>>>>,
      <<"Hstrok",<<294>>>>, <<"HumpDownHump",<<8782>>>>,
      <<"HumpEqual",<<8783>>>>, <<"IEcy",<<1045>>>>, <<"IJlig",<<306>>>>,
      <<"IOcy",<<1025>>>>, <<"Iacute",<<205>>>>, <<"Icirc",<<206>>>>,
      <<"Icy",<<1048>>>>, <<"Idot",<<304>>>>, <<"Ifr",<<8465>>>>,
      <<"Igrave",<<204>>>>, <<"Im",<<8465>>>>, <<"Imacr",<<298>>>>,
      <<"ImaginaryI",<<8520>>>>, <<"Implies",<<8658>>>>, <<"Int",<<8748>>>>,
      <<"Integral",<<8747>>>>, <<"Intersection",<<8898>>>>,
      <<"InvisibleComma",<<8291>>>>, <<"InvisibleTimes",<<8290>>>>,
      <<"Iogon",<<302>>>>, <<"Iopf",<<120128>>>>, <<"Iota",<<921>>>>,
      <<"Iscr",<<8464>>>>, <<"Itilde",<<296>>>>, <<"Iukcy",<<1030>>>>,
      <<"Iuml",<<207>>>>, <<"Jcirc",<<308>>>>, <<"Jcy",<<1049>>>>,
      <<"Jfr",<<120077>>>>, <<"Jopf",<<120129>>>>, <<"Jscr",<<119973>>>>,
      <<"Jsercy",<<1032>>>>, <<"Jukcy",<<1028>>>>, <<"KHcy",<<1061>>>>,
      <<"KJcy",<<1036>>>>, <<"Kappa",<<922>>>>, <<"Kcedil",<<310>>>>,
      <<"Kcy",<<1050>>>>, <<"Kfr",<<120078>>>>, <<"Kopf",<<120130>>>>,
      <<"Kscr",<<119974>>>>, <<"LJcy",<<1033>>>>, <<"LT",<<60>>>>,
      <<"Lacute",<<313>>>>, <<"Lambda",<<923>>>>, <<"Lang",<<10218>>>>,
      <<"Laplacetrf",<<8466>>>>, <<"Larr",<<8606>>>>, <<"Lcaron",<<317>>>>,
      <<"Lcedil",<<315>>>>, <<"Lcy",<<1051>>>>,
      <<"LeftAngleBracket",<<10216>>>>, <<"LeftArrow",<<8592>>>>,
      <<"LeftArrowBar",<<8676>>>>, <<"LeftArrowRightArrow",<<8646>>>>,
      <<"LeftCeiling",<<8968>>>>, <<"LeftDoubleBracket",<<10214>>>>,
      <<"LeftDownTeeVector",<<10593>>>>, <<"LeftDownVector",<<8643>>>>,
      <<"LeftDownVectorBar",<<10585>>>>, <<"LeftFloor",<<8970>>>>,
      <<"LeftRightArrow",<<8596>>>>, <<"LeftRightVector",<<10574>>>>,
      <<"LeftTee",<<8867>>>>, <<"LeftTeeArrow",<<8612>>>>,
      <<"LeftTeeVector",<<10586>>>>, <<"LeftTriangle",<<8882>>>>,
      <<"LeftTriangleBar",<<10703>>>>, <<"LeftTriangleEqual",<<8884>>>>,
      <<"LeftUpDownVector",<<10577>>>>, <<"LeftUpTeeVector",<<10592>>>>,
      <<"LeftUpVector",<<8639>>>>, <<"LeftUpVectorBar",<<10584>>>>,
      <<"LeftVector",<<8636>>>>, <<"LeftVectorBar",<<10578>>>>,
      <<"Leftarrow",<<8656>>>>, <<"Leftrightarrow",<<8660>>>>,
      <<"LessEqualGreater",<<8922>>>>, <<"LessFullEqual",<<8806>>>>,
      <<"LessGreater",<<8822>>>>, <<"LessLess",<<10913>>>>,
      <<"LessSlantEqual",<<10877>>>>, <<"LessTilde",<<8818>>>>,
      <<"Lfr",<<120079>>>>, <<"Ll",<<8920>>>>, <<"Lleftarrow",<<8666>>>>,
      <<"Lmidot",<<319>>>>, <<"LongLeftArrow",<<10229>>>>,
      <<"LongLeftRightArrow",<<10231>>>>, <<"LongRightArrow",<<10230>>>>,
      <<"Longleftarrow",<<10232>>>>, <<"Longleftrightarrow",<<10234>>>>,
      <<"Longrightarrow",<<10233>>>>, <<"Lopf",<<120131>>>>,
      <<"LowerLeftArrow",<<8601>>>>, <<"LowerRightArrow",<<8600>>>>,
      <<"Lscr",<<8466>>>>, <<"Lsh",<<8624>>>>, <<"Lstrok",<<321>>>>,
      <<"Lt",<<8810>>>>, <<"Map",<<10501>>>>, <<"Mcy",<<1052>>>>,
      <<"MediumSpace",<<8287>>>>, <<"Mellintrf",<<8499>>>>,
      <<"Mfr",<<120080>>>>, <<"MinusPlus",<<8723>>>>, <<"Mopf",<<120132>>>>,
      <<"Mscr",<<8499>>>>, <<"Mu",<<924>>>>, <<"NJcy",<<1034>>>>,
      <<"Nacute",<<323>>>>, <<"Ncaron",<<327>>>>, <<"Ncedil",<<325>>>>,
      <<"Ncy",<<1053>>>>, <<"NegativeMediumSpace",<<8203>>>>,
      <<"NegativeThickSpace",<<8203>>>>, <<"NegativeThinSpace",<<8203>>>>,
      <<"NegativeVeryThinSpace",<<8203>>>>,
      <<"NestedGreaterGreater",<<8811>>>>, <<"NestedLessLess",<<8810>>>>,
      <<"NewLine",<<10>>>>, <<"Nfr",<<120081>>>>, <<"NoBreak",<<8288>>>>,
      <<"NonBreakingSpace",<<160>>>>, <<"Nopf",<<8469>>>>,
      <<"Not",<<10988>>>>, <<"NotCongruent",<<8802>>>>,
      <<"NotCupCap",<<8813>>>>, <<"NotDoubleVerticalBar",<<8742>>>>,
      <<"NotElement",<<8713>>>>, <<"NotEqual",<<8800>>>>,
      <<"NotEqualTilde",<<8770,824>>>>, <<"NotExists",<<8708>>>>,
      <<"NotGreater",<<8815>>>>, <<"NotGreaterEqual",<<8817>>>>,
      <<"NotGreaterFullEqual",<<8807,824>>>>,
      <<"NotGreaterGreater",<<8811,824>>>>, <<"NotGreaterLess",<<8825>>>>,
      <<"NotGreaterSlantEqual",<<10878,824>>>>,
      <<"NotGreaterTilde",<<8821>>>>, <<"NotHumpDownHump",<<8782,824>>>>,
      <<"NotHumpEqual",<<8783,824>>>>, <<"NotLeftTriangle",<<8938>>>>,
      <<"NotLeftTriangleBar",<<10703,824>>>>,
      <<"NotLeftTriangleEqual",<<8940>>>>, <<"NotLess",<<8814>>>>,
      <<"NotLessEqual",<<8816>>>>, <<"NotLessGreater",<<8824>>>>,
      <<"NotLessLess",<<8810,824>>>>, <<"NotLessSlantEqual",<<10877,824>>>>,
      <<"NotLessTilde",<<8820>>>>,
      <<"NotNestedGreaterGreater",<<10914,824>>>>,
      <<"NotNestedLessLess",<<10913,824>>>>, <<"NotPrecedes",<<8832>>>>,
      <<"NotPrecedesEqual",<<10927,824>>>>,
      <<"NotPrecedesSlantEqual",<<8928>>>>, <<"NotReverseElement",<<8716>>>>,
      <<"NotRightTriangle",<<8939>>>>,
      <<"NotRightTriangleBar",<<10704,824>>>>,
      <<"NotRightTriangleEqual",<<8941>>>>,
      <<"NotSquareSubset",<<8847,824>>>>, <<"NotSquareSubsetEqual",<<8930>>>>,
      <<"NotSquareSuperset",<<8848,824>>>>,
      <<"NotSquareSupersetEqual",<<8931>>>>, <<"NotSubset",<<8834,8402>>>>,
      <<"NotSubsetEqual",<<8840>>>>, <<"NotSucceeds",<<8833>>>>,
      <<"NotSucceedsEqual",<<10928,824>>>>,
      <<"NotSucceedsSlantEqual",<<8929>>>>,
      <<"NotSucceedsTilde",<<8831,824>>>>, <<"NotSuperset",<<8835,8402>>>>,
      <<"NotSupersetEqual",<<8841>>>>, <<"NotTilde",<<8769>>>>,
      <<"NotTildeEqual",<<8772>>>>, <<"NotTildeFullEqual",<<8775>>>>,
      <<"NotTildeTilde",<<8777>>>>, <<"NotVerticalBar",<<8740>>>>,
      <<"Nscr",<<119977>>>>, <<"Ntilde",<<209>>>>, <<"Nu",<<925>>>>,
      <<"OElig",<<338>>>>, <<"Oacute",<<211>>>>, <<"Ocirc",<<212>>>>,
      <<"Ocy",<<1054>>>>, <<"Odblac",<<336>>>>, <<"Ofr",<<120082>>>>,
      <<"Ograve",<<210>>>>, <<"Omacr",<<332>>>>, <<"Omega",<<937>>>>,
      <<"Omicron",<<927>>>>, <<"Oopf",<<120134>>>>,
      <<"OpenCurlyDoubleQuote",<<8220>>>>, <<"OpenCurlyQuote",<<8216>>>>,
      <<"Or",<<10836>>>>, <<"Oscr",<<119978>>>>, <<"Oslash",<<216>>>>,
      <<"Otilde",<<213>>>>, <<"Otimes",<<10807>>>>, <<"Ouml",<<214>>>>,
      <<"OverBar",<<8254>>>>, <<"OverBrace",<<9182>>>>,
      <<"OverBracket",<<9140>>>>, <<"OverParenthesis",<<9180>>>>,
      <<"PartialD",<<8706>>>>, <<"Pcy",<<1055>>>>, <<"Pfr",<<120083>>>>,
      <<"Phi",<<934>>>>, <<"Pi",<<928>>>>, <<"PlusMinus",<<177>>>>,
      <<"Poincareplane",<<8460>>>>, <<"Popf",<<8473>>>>, <<"Pr",<<10939>>>>,
      <<"Precedes",<<8826>>>>, <<"PrecedesEqual",<<10927>>>>,
      <<"PrecedesSlantEqual",<<8828>>>>, <<"PrecedesTilde",<<8830>>>>,
      <<"Prime",<<8243>>>>, <<"Product",<<8719>>>>, <<"Proportion",<<8759>>>>,
      <<"Proportional",<<8733>>>>, <<"Pscr",<<119979>>>>, <<"Psi",<<936>>>>,
      <<"QUOT",<<34>>>>, <<"Qfr",<<120084>>>>, <<"Qopf",<<8474>>>>,
      <<"Qscr",<<119980>>>>, <<"RBarr",<<10512>>>>, <<"REG",<<174>>>>,
      <<"Racute",<<340>>>>, <<"Rang",<<10219>>>>, <<"Rarr",<<8608>>>>,
      <<"Rarrtl",<<10518>>>>, <<"Rcaron",<<344>>>>, <<"Rcedil",<<342>>>>,
      <<"Rcy",<<1056>>>>, <<"Re",<<8476>>>>, <<"ReverseElement",<<8715>>>>,
      <<"ReverseEquilibrium",<<8651>>>>, <<"ReverseUpEquilibrium",<<10607>>>>,
      <<"Rfr",<<8476>>>>, <<"Rho",<<929>>>>,
      <<"RightAngleBracket",<<10217>>>>, <<"RightArrow",<<8594>>>>,
      <<"RightArrowBar",<<8677>>>>, <<"RightArrowLeftArrow",<<8644>>>>,
      <<"RightCeiling",<<8969>>>>, <<"RightDoubleBracket",<<10215>>>>,
      <<"RightDownTeeVector",<<10589>>>>, <<"RightDownVector",<<8642>>>>,
      <<"RightDownVectorBar",<<10581>>>>, <<"RightFloor",<<8971>>>>,
      <<"RightTee",<<8866>>>>, <<"RightTeeArrow",<<8614>>>>,
      <<"RightTeeVector",<<10587>>>>, <<"RightTriangle",<<8883>>>>,
      <<"RightTriangleBar",<<10704>>>>, <<"RightTriangleEqual",<<8885>>>>,
      <<"RightUpDownVector",<<10575>>>>, <<"RightUpTeeVector",<<10588>>>>,
      <<"RightUpVector",<<8638>>>>, <<"RightUpVectorBar",<<10580>>>>,
      <<"RightVector",<<8640>>>>, <<"RightVectorBar",<<10579>>>>,
      <<"Rightarrow",<<8658>>>>, <<"Ropf",<<8477>>>>,
      <<"RoundImplies",<<10608>>>>, <<"Rrightarrow",<<8667>>>>,
      <<"Rscr",<<8475>>>>, <<"Rsh",<<8625>>>>, <<"RuleDelayed",<<10740>>>>,
      <<"SHCHcy",<<1065>>>>, <<"SHcy",<<1064>>>>, <<"SOFTcy",<<1068>>>>,
      <<"Sacute",<<346>>>>, <<"Sc",<<10940>>>>, <<"Scaron",<<352>>>>,
      <<"Scedil",<<350>>>>, <<"Scirc",<<348>>>>, <<"Scy",<<1057>>>>,
      <<"Sfr",<<120086>>>>, <<"ShortDownArrow",<<8595>>>>,
      <<"ShortLeftArrow",<<8592>>>>, <<"ShortRightArrow",<<8594>>>>,
      <<"ShortUpArrow",<<8593>>>>, <<"Sigma",<<931>>>>,
      <<"SmallCircle",<<8728>>>>, <<"Sopf",<<120138>>>>, <<"Sqrt",<<8730>>>>,
      <<"Square",<<9633>>>>, <<"SquareIntersection",<<8851>>>>,
      <<"SquareSubset",<<8847>>>>, <<"SquareSubsetEqual",<<8849>>>>,
      <<"SquareSuperset",<<8848>>>>, <<"SquareSupersetEqual",<<8850>>>>,
      <<"SquareUnion",<<8852>>>>, <<"Sscr",<<119982>>>>, <<"Star",<<8902>>>>,
      <<"Sub",<<8912>>>>, <<"Subset",<<8912>>>>, <<"SubsetEqual",<<8838>>>>,
      <<"Succeeds",<<8827>>>>, <<"SucceedsEqual",<<10928>>>>,
      <<"SucceedsSlantEqual",<<8829>>>>, <<"SucceedsTilde",<<8831>>>>,
      <<"SuchThat",<<8715>>>>, <<"Sum",<<8721>>>>, <<"Sup",<<8913>>>>,
      <<"Superset",<<8835>>>>, <<"SupersetEqual",<<8839>>>>,
      <<"Supset",<<8913>>>>, <<"THORN",<<222>>>>, <<"TRADE",<<8482>>>>,
      <<"TSHcy",<<1035>>>>, <<"TScy",<<1062>>>>, <<"Tab",<<9>>>>,
      <<"Tau",<<932>>>>, <<"Tcaron",<<356>>>>, <<"Tcedil",<<354>>>>,
      <<"Tcy",<<1058>>>>, <<"Tfr",<<120087>>>>, <<"Therefore",<<8756>>>>,
      <<"Theta",<<920>>>>, <<"ThickSpace",<<8287,8202>>>>,
      <<"ThinSpace",<<8201>>>>, <<"Tilde",<<8764>>>>,
      <<"TildeEqual",<<8771>>>>, <<"TildeFullEqual",<<8773>>>>,
      <<"TildeTilde",<<8776>>>>, <<"Topf",<<120139>>>>,
      <<"TripleDot",<<8411>>>>, <<"Tscr",<<119983>>>>, <<"Tstrok",<<358>>>>,
      <<"Uacute",<<218>>>>, <<"Uarr",<<8607>>>>, <<"Uarrocir",<<10569>>>>,
      <<"Ubrcy",<<1038>>>>, <<"Ubreve",<<364>>>>, <<"Ucirc",<<219>>>>,
      <<"Ucy",<<1059>>>>, <<"Udblac",<<368>>>>, <<"Ufr",<<120088>>>>,
      <<"Ugrave",<<217>>>>, <<"Umacr",<<362>>>>, <<"UnderBar",<<95>>>>,
      <<"UnderBrace",<<9183>>>>, <<"UnderBracket",<<9141>>>>,
      <<"UnderParenthesis",<<9181>>>>, <<"Union",<<8899>>>>,
      <<"UnionPlus",<<8846>>>>, <<"Uogon",<<370>>>>, <<"Uopf",<<120140>>>>,
      <<"UpArrow",<<8593>>>>, <<"UpArrowBar",<<10514>>>>,
      <<"UpArrowDownArrow",<<8645>>>>, <<"UpDownArrow",<<8597>>>>,
      <<"UpEquilibrium",<<10606>>>>, <<"UpTee",<<8869>>>>,
      <<"UpTeeArrow",<<8613>>>>, <<"Uparrow",<<8657>>>>,
      <<"Updownarrow",<<8661>>>>, <<"UpperLeftArrow",<<8598>>>>,
      <<"UpperRightArrow",<<8599>>>>, <<"Upsi",<<978>>>>,
      <<"Upsilon",<<933>>>>, <<"Uring",<<366>>>>, <<"Uscr",<<119984>>>>,
      <<"Utilde",<<360>>>>, <<"Uuml",<<220>>>>, <<"VDash",<<8875>>>>,
      <<"Vbar",<<10987>>>>, <<"Vcy",<<1042>>>>, <<"Vdash",<<8873>>>>,
      <<"Vdashl",<<10982>>>>, <<"Vee",<<8897>>>>, <<"Verbar",<<8214>>>>,
      <<"Vert",<<8214>>>>, <<"VerticalBar",<<8739>>>>,
      <<"VerticalLine",<<124>>>>, <<"VerticalSeparator",<<10072>>>>,
      <<"VerticalTilde",<<8768>>>>, <<"VeryThinSpace",<<8202>>>>,
      <<"Vfr",<<120089>>>>, <<"Vopf",<<120141>>>>, <<"Vscr",<<119985>>>>,
      <<"Vvdash",<<8874>>>>, <<"Wcirc",<<372>>>>, <<"Wedge",<<8896>>>>,
      <<"Wfr",<<120090>>>>, <<"Wopf",<<120142>>>>, <<"Wscr",<<119986>>>>,
      <<"Xfr",<<120091>>>>, <<"Xi",<<926>>>>, <<"Xopf",<<120143>>>>,
      <<"Xscr",<<119987>>>>, <<"YAcy",<<1071>>>>, <<"YIcy",<<1031>>>>,
      <<"YUcy",<<1070>>>>, <<"Yacute",<<221>>>>, <<"Ycirc",<<374>>>>,
      <<"Ycy",<<1067>>>>, <<"Yfr",<<120092>>>>, <<"Yopf",<<120144>>>>,
      <<"Yscr",<<119988>>>>, <<"Yuml",<<376>>>>, <<"ZHcy",<<1046>>>>,
      <<"Zacute",<<377>>>>, <<"Zcaron",<<381>>>>, <<"Zcy",<<1047>>>>,
      <<"Zdot",<<379>>>>, <<"ZeroWidthSpace",<<8203>>>>, <<"Zeta",<<918>>>>,
      <<"Zfr",<<8488>>>>, <<"Zopf",<<8484>>>>, <<"Zscr",<<119989>>>>,
      <<"aacute",<<225>>>>, <<"abreve",<<259>>>>, <<"ac",<<8766>>>>,
      <<"acE",<<8766,819>>>>, <<"acd",<<8767>>>>, <<"acirc",<<226>>>>,
      <<"acute",<<180>>>>, <<"acy",<<1072>>>>, <<"aelig",<<230>>>>,
      <<"af",<<8289>>>>, <<"afr",<<120094>>>>, <<"agrave",<<224>>>>,
      <<"alefsym",<<8501>>>>, <<"aleph",<<8501>>>>, <<"alpha",<<945>>>>,
      <<"amacr",<<257>>>>, <<"amalg",<<10815>>>>, <<"amp",<<38>>>>,
      <<"and",<<8743>>>>, <<"andand",<<10837>>>>, <<"andd",<<10844>>>>,
      <<"andslope",<<10840>>>>, <<"andv",<<10842>>>>, <<"ang",<<8736>>>>,
      <<"ange",<<10660>>>>, <<"angle",<<8736>>>>, <<"angmsd",<<8737>>>>,
      <<"angmsdaa",<<10664>>>>, <<"angmsdab",<<10665>>>>,
      <<"angmsdac",<<10666>>>>, <<"angmsdad",<<10667>>>>,
      <<"angmsdae",<<10668>>>>, <<"angmsdaf",<<10669>>>>,
      <<"angmsdag",<<10670>>>>, <<"angmsdah",<<10671>>>>,
      <<"angrt",<<8735>>>>, <<"angrtvb",<<8894>>>>, <<"angrtvbd",<<10653>>>>,
      <<"angsph",<<8738>>>>, <<"angst",<<197>>>>, <<"angzarr",<<9084>>>>,
      <<"aogon",<<261>>>>, <<"aopf",<<120146>>>>, <<"ap",<<8776>>>>,
      <<"apE",<<10864>>>>, <<"apacir",<<10863>>>>, <<"ape",<<8778>>>>,
      <<"apid",<<8779>>>>, <<"apos",<<39>>>>, <<"approx",<<8776>>>>,
      <<"approxeq",<<8778>>>>, <<"aring",<<229>>>>, <<"ascr",<<119990>>>>,
      <<"ast",<<42>>>>, <<"asymp",<<8776>>>>, <<"asympeq",<<8781>>>>,
      <<"atilde",<<227>>>>, <<"auml",<<228>>>>, <<"awconint",<<8755>>>>,
      <<"awint",<<10769>>>>, <<"bNot",<<10989>>>>, <<"backcong",<<8780>>>>,
      <<"backepsilon",<<1014>>>>, <<"backprime",<<8245>>>>,
      <<"backsim",<<8765>>>>, <<"backsimeq",<<8909>>>>, <<"barvee",<<8893>>>>,
      <<"barwed",<<8965>>>>, <<"barwedge",<<8965>>>>, <<"bbrk",<<9141>>>>,
      <<"bbrktbrk",<<9142>>>>, <<"bcong",<<8780>>>>, <<"bcy",<<1073>>>>,
      <<"bdquo",<<8222>>>>, <<"becaus",<<8757>>>>, <<"because",<<8757>>>>,
      <<"bemptyv",<<10672>>>>, <<"bepsi",<<1014>>>>, <<"bernou",<<8492>>>>,
      <<"beta",<<946>>>>, <<"beth",<<8502>>>>, <<"between",<<8812>>>>,
      <<"bfr",<<120095>>>>, <<"bigcap",<<8898>>>>, <<"bigcirc",<<9711>>>>,
      <<"bigcup",<<8899>>>>, <<"bigodot",<<10752>>>>,
      <<"bigoplus",<<10753>>>>, <<"bigotimes",<<10754>>>>,
      <<"bigsqcup",<<10758>>>>, <<"bigstar",<<9733>>>>,
      <<"bigtriangledown",<<9661>>>>, <<"bigtriangleup",<<9651>>>>,
      <<"biguplus",<<10756>>>>, <<"bigvee",<<8897>>>>,
      <<"bigwedge",<<8896>>>>, <<"bkarow",<<10509>>>>,
      <<"blacklozenge",<<10731>>>>, <<"blacksquare",<<9642>>>>,
      <<"blacktriangle",<<9652>>>>, <<"blacktriangledown",<<9662>>>>,
      <<"blacktriangleleft",<<9666>>>>, <<"blacktriangleright",<<9656>>>>,
      <<"blank",<<9251>>>>, <<"blk12",<<9618>>>>, <<"blk14",<<9617>>>>,
      <<"blk34",<<9619>>>>, <<"block",<<9608>>>>, <<"bne",<<61,8421>>>>,
      <<"bnequiv",<<8801,8421>>>>, <<"bnot",<<8976>>>>, <<"bopf",<<120147>>>>,
      <<"bot",<<8869>>>>, <<"bottom",<<8869>>>>, <<"bowtie",<<8904>>>>,
      <<"boxDL",<<9559>>>>, <<"boxDR",<<9556>>>>, <<"boxDl",<<9558>>>>,
      <<"boxDr",<<9555>>>>, <<"boxH",<<9552>>>>, <<"boxHD",<<9574>>>>,
      <<"boxHU",<<9577>>>>, <<"boxHd",<<9572>>>>, <<"boxHu",<<9575>>>>,
      <<"boxUL",<<9565>>>>, <<"boxUR",<<9562>>>>, <<"boxUl",<<9564>>>>,
      <<"boxUr",<<9561>>>>, <<"boxV",<<9553>>>>, <<"boxVH",<<9580>>>>,
      <<"boxVL",<<9571>>>>, <<"boxVR",<<9568>>>>, <<"boxVh",<<9579>>>>,
      <<"boxVl",<<9570>>>>, <<"boxVr",<<9567>>>>, <<"boxbox",<<10697>>>>,
      <<"boxdL",<<9557>>>>, <<"boxdR",<<9554>>>>, <<"boxdl",<<9488>>>>,
      <<"boxdr",<<9484>>>>, <<"boxh",<<9472>>>>, <<"boxhD",<<9573>>>>,
      <<"boxhU",<<9576>>>>, <<"boxhd",<<9516>>>>, <<"boxhu",<<9524>>>>,
      <<"boxminus",<<8863>>>>, <<"boxplus",<<8862>>>>,
      <<"boxtimes",<<8864>>>>, <<"boxuL",<<9563>>>>, <<"boxuR",<<9560>>>>,
      <<"boxul",<<9496>>>>, <<"boxur",<<9492>>>>, <<"boxv",<<9474>>>>,
      <<"boxvH",<<9578>>>>, <<"boxvL",<<9569>>>>, <<"boxvR",<<9566>>>>,
      <<"boxvh",<<9532>>>>, <<"boxvl",<<9508>>>>, <<"boxvr",<<9500>>>>,
      <<"bprime",<<8245>>>>, <<"breve",<<728>>>>, <<"brvbar",<<166>>>>,
      <<"bscr",<<119991>>>>, <<"bsemi",<<8271>>>>, <<"bsim",<<8765>>>>,
      <<"bsime",<<8909>>>>, <<"bsol",<<92>>>>, <<"bsolb",<<10693>>>>,
      <<"bsolhsub",<<10184>>>>, <<"bull",<<8226>>>>, <<"bullet",<<8226>>>>,
      <<"bump",<<8782>>>>, <<"bumpE",<<10926>>>>, <<"bumpe",<<8783>>>>,
      <<"bumpeq",<<8783>>>>, <<"cacute",<<263>>>>, <<"cap",<<8745>>>>,
      <<"capand",<<10820>>>>, <<"capbrcup",<<10825>>>>,
      <<"capcap",<<10827>>>>, <<"capcup",<<10823>>>>, <<"capdot",<<10816>>>>,
      <<"caps",<<8745,65024>>>>, <<"caret",<<8257>>>>, <<"caron",<<711>>>>,
      <<"ccaps",<<10829>>>>, <<"ccaron",<<269>>>>, <<"ccedil",<<231>>>>,
      <<"ccirc",<<265>>>>, <<"ccups",<<10828>>>>, <<"ccupssm",<<10832>>>>,
      <<"cdot",<<267>>>>, <<"cedil",<<184>>>>, <<"cemptyv",<<10674>>>>,
      <<"cent",<<162>>>>, <<"centerdot",<<183>>>>, <<"cfr",<<120096>>>>,
      <<"chcy",<<1095>>>>, <<"check",<<10003>>>>, <<"checkmark",<<10003>>>>,
      <<"chi",<<967>>>>, <<"cir",<<9675>>>>, <<"cirE",<<10691>>>>,
      <<"circ",<<710>>>>, <<"circeq",<<8791>>>>,
      <<"circlearrowleft",<<8634>>>>, <<"circlearrowright",<<8635>>>>,
      <<"circledR",<<174>>>>, <<"circledS",<<9416>>>>,
      <<"circledast",<<8859>>>>, <<"circledcirc",<<8858>>>>,
      <<"circleddash",<<8861>>>>, <<"cire",<<8791>>>>,
      <<"cirfnint",<<10768>>>>, <<"cirmid",<<10991>>>>,
      <<"cirscir",<<10690>>>>, <<"clubs",<<9827>>>>, <<"clubsuit",<<9827>>>>,
      <<"colon",<<58>>>>, <<"colone",<<8788>>>>, <<"coloneq",<<8788>>>>,
      <<"comma",<<44>>>>, <<"commat",<<64>>>>, <<"comp",<<8705>>>>,
      <<"compfn",<<8728>>>>, <<"complement",<<8705>>>>,
      <<"complexes",<<8450>>>>, <<"cong",<<8773>>>>, <<"congdot",<<10861>>>>,
      <<"conint",<<8750>>>>, <<"copf",<<120148>>>>, <<"coprod",<<8720>>>>,
      <<"copy",<<169>>>>, <<"copysr",<<8471>>>>, <<"crarr",<<8629>>>>,
      <<"cross",<<10007>>>>, <<"cscr",<<119992>>>>, <<"csub",<<10959>>>>,
      <<"csube",<<10961>>>>, <<"csup",<<10960>>>>, <<"csupe",<<10962>>>>,
      <<"ctdot",<<8943>>>>, <<"cudarrl",<<10552>>>>, <<"cudarrr",<<10549>>>>,
      <<"cuepr",<<8926>>>>, <<"cuesc",<<8927>>>>, <<"cularr",<<8630>>>>,
      <<"cularrp",<<10557>>>>, <<"cup",<<8746>>>>, <<"cupbrcap",<<10824>>>>,
      <<"cupcap",<<10822>>>>, <<"cupcup",<<10826>>>>, <<"cupdot",<<8845>>>>,
      <<"cupor",<<10821>>>>, <<"cups",<<8746,65024>>>>, <<"curarr",<<8631>>>>,
      <<"curarrm",<<10556>>>>, <<"curlyeqprec",<<8926>>>>,
      <<"curlyeqsucc",<<8927>>>>, <<"curlyvee",<<8910>>>>,
      <<"curlywedge",<<8911>>>>, <<"curren",<<164>>>>,
      <<"curvearrowleft",<<8630>>>>, <<"curvearrowright",<<8631>>>>,
      <<"cuvee",<<8910>>>>, <<"cuwed",<<8911>>>>, <<"cwconint",<<8754>>>>,
      <<"cwint",<<8753>>>>, <<"cylcty",<<9005>>>>, <<"dArr",<<8659>>>>,
      <<"dHar",<<10597>>>>, <<"dagger",<<8224>>>>, <<"daleth",<<8504>>>>,
      <<"darr",<<8595>>>>, <<"dash",<<8208>>>>, <<"dashv",<<8867>>>>,
      <<"dbkarow",<<10511>>>>, <<"dblac",<<733>>>>, <<"dcaron",<<271>>>>,
      <<"dcy",<<1076>>>>, <<"dd",<<8518>>>>, <<"ddagger",<<8225>>>>,
      <<"ddarr",<<8650>>>>, <<"ddotseq",<<10871>>>>, <<"deg",<<176>>>>,
      <<"delta",<<948>>>>, <<"demptyv",<<10673>>>>, <<"dfisht",<<10623>>>>,
      <<"dfr",<<120097>>>>, <<"dharl",<<8643>>>>, <<"dharr",<<8642>>>>,
      <<"diam",<<8900>>>>, <<"diamond",<<8900>>>>, <<"diamondsuit",<<9830>>>>,
      <<"diams",<<9830>>>>, <<"die",<<168>>>>, <<"digamma",<<989>>>>,
      <<"disin",<<8946>>>>, <<"div",<<247>>>>, <<"divide",<<247>>>>,
      <<"divideontimes",<<8903>>>>, <<"divonx",<<8903>>>>,
      <<"djcy",<<1106>>>>, <<"dlcorn",<<8990>>>>, <<"dlcrop",<<8973>>>>,
      <<"dollar",<<36>>>>, <<"dopf",<<120149>>>>, <<"dot",<<729>>>>,
      <<"doteq",<<8784>>>>, <<"doteqdot",<<8785>>>>, <<"dotminus",<<8760>>>>,
      <<"dotplus",<<8724>>>>, <<"dotsquare",<<8865>>>>,
      <<"doublebarwedge",<<8966>>>>, <<"downarrow",<<8595>>>>,
      <<"downdownarrows",<<8650>>>>, <<"downharpoonleft",<<8643>>>>,
      <<"downharpoonright",<<8642>>>>, <<"drbkarow",<<10512>>>>,
      <<"drcorn",<<8991>>>>, <<"drcrop",<<8972>>>>, <<"dscr",<<119993>>>>,
      <<"dscy",<<1109>>>>, <<"dsol",<<10742>>>>, <<"dstrok",<<273>>>>,
      <<"dtdot",<<8945>>>>, <<"dtri",<<9663>>>>, <<"dtrif",<<9662>>>>,
      <<"duarr",<<8693>>>>, <<"duhar",<<10607>>>>, <<"dwangle",<<10662>>>>,
      <<"dzcy",<<1119>>>>, <<"dzigrarr",<<10239>>>>, <<"eDDot",<<10871>>>>,
      <<"eDot",<<8785>>>>, <<"eacute",<<233>>>>, <<"easter",<<10862>>>>,
      <<"ecaron",<<283>>>>, <<"ecir",<<8790>>>>, <<"ecirc",<<234>>>>,
      <<"ecolon",<<8789>>>>, <<"ecy",<<1101>>>>, <<"edot",<<279>>>>,
      <<"ee",<<8519>>>>, <<"efDot",<<8786>>>>, <<"efr",<<120098>>>>,
      <<"eg",<<10906>>>>, <<"egrave",<<232>>>>, <<"egs",<<10902>>>>,
      <<"egsdot",<<10904>>>>, <<"el",<<10905>>>>, <<"elinters",<<9191>>>>,
      <<"ell",<<8467>>>>, <<"els",<<10901>>>>, <<"elsdot",<<10903>>>>,
      <<"emacr",<<275>>>>, <<"empty",<<8709>>>>, <<"emptyset",<<8709>>>>,
      <<"emptyv",<<8709>>>>, <<"emsp",<<8195>>>>, <<"emsp13",<<8196>>>>,
      <<"emsp14",<<8197>>>>, <<"eng",<<331>>>>, <<"ensp",<<8194>>>>,
      <<"eogon",<<281>>>>, <<"eopf",<<120150>>>>, <<"epar",<<8917>>>>,
      <<"eparsl",<<10723>>>>, <<"eplus",<<10865>>>>, <<"epsi",<<949>>>>,
      <<"epsilon",<<949>>>>, <<"epsiv",<<1013>>>>, <<"eqcirc",<<8790>>>>,
      <<"eqcolon",<<8789>>>>, <<"eqsim",<<8770>>>>,
      <<"eqslantgtr",<<10902>>>>, <<"eqslantless",<<10901>>>>,
      <<"equals",<<61>>>>, <<"equest",<<8799>>>>, <<"equiv",<<8801>>>>,
      <<"equivDD",<<10872>>>>, <<"eqvparsl",<<10725>>>>, <<"erDot",<<8787>>>>,
      <<"erarr",<<10609>>>>, <<"escr",<<8495>>>>, <<"esdot",<<8784>>>>,
      <<"esim",<<8770>>>>, <<"eta",<<951>>>>, <<"eth",<<240>>>>,
      <<"euml",<<235>>>>, <<"euro",<<8364>>>>, <<"excl",<<33>>>>,
      <<"exist",<<8707>>>>, <<"expectation",<<8496>>>>,
      <<"exponentiale",<<8519>>>>, <<"fallingdotseq",<<8786>>>>,
      <<"fcy",<<1092>>>>, <<"female",<<9792>>>>, <<"ffilig",<<64259>>>>,
      <<"fflig",<<64256>>>>, <<"ffllig",<<64260>>>>, <<"ffr",<<120099>>>>,
      <<"filig",<<64257>>>>, <<"fjlig",<<102,106>>>>, <<"flat",<<9837>>>>,
      <<"fllig",<<64258>>>>, <<"fltns",<<9649>>>>, <<"fnof",<<402>>>>,
      <<"fopf",<<120151>>>>, <<"forall",<<8704>>>>, <<"fork",<<8916>>>>,
      <<"forkv",<<10969>>>>, <<"fpartint",<<10765>>>>, <<"frac12",<<189>>>>,
      <<"frac13",<<8531>>>>, <<"frac14",<<188>>>>, <<"frac15",<<8533>>>>,
      <<"frac16",<<8537>>>>, <<"frac18",<<8539>>>>, <<"frac23",<<8532>>>>,
      <<"frac25",<<8534>>>>, <<"frac34",<<190>>>>, <<"frac35",<<8535>>>>,
      <<"frac38",<<8540>>>>, <<"frac45",<<8536>>>>, <<"frac56",<<8538>>>>,
      <<"frac58",<<8541>>>>, <<"frac78",<<8542>>>>, <<"frasl",<<8260>>>>,
      <<"frown",<<8994>>>>, <<"fscr",<<119995>>>>, <<"gE",<<8807>>>>,
      <<"gEl",<<10892>>>>, <<"gacute",<<501>>>>, <<"gamma",<<947>>>>,
      <<"gammad",<<989>>>>, <<"gap",<<10886>>>>, <<"gbreve",<<287>>>>,
      <<"gcirc",<<285>>>>, <<"gcy",<<1075>>>>, <<"gdot",<<289>>>>,
      <<"ge",<<8805>>>>, <<"gel",<<8923>>>>, <<"geq",<<8805>>>>,
      <<"geqq",<<8807>>>>, <<"geqslant",<<10878>>>>, <<"ges",<<10878>>>>,
      <<"gescc",<<10921>>>>, <<"gesdot",<<10880>>>>, <<"gesdoto",<<10882>>>>,
      <<"gesdotol",<<10884>>>>, <<"gesl",<<8923,65024>>>>,
      <<"gesles",<<10900>>>>, <<"gfr",<<120100>>>>, <<"gg",<<8811>>>>,
      <<"ggg",<<8921>>>>, <<"gimel",<<8503>>>>, <<"gjcy",<<1107>>>>,
      <<"gl",<<8823>>>>, <<"glE",<<10898>>>>, <<"gla",<<10917>>>>,
      <<"glj",<<10916>>>>, <<"gnE",<<8809>>>>, <<"gnap",<<10890>>>>,
      <<"gnapprox",<<10890>>>>, <<"gne",<<10888>>>>, <<"gneq",<<10888>>>>,
      <<"gneqq",<<8809>>>>, <<"gnsim",<<8935>>>>, <<"gopf",<<120152>>>>,
      <<"grave",<<96>>>>, <<"gscr",<<8458>>>>, <<"gsim",<<8819>>>>,
      <<"gsime",<<10894>>>>, <<"gsiml",<<10896>>>>, <<"gt",<<62>>>>,
      <<"gtcc",<<10919>>>>, <<"gtcir",<<10874>>>>, <<"gtdot",<<8919>>>>,
      <<"gtlPar",<<10645>>>>, <<"gtquest",<<10876>>>>,
      <<"gtrapprox",<<10886>>>>, <<"gtrarr",<<10616>>>>,
      <<"gtrdot",<<8919>>>>, <<"gtreqless",<<8923>>>>,
      <<"gtreqqless",<<10892>>>>, <<"gtrless",<<8823>>>>,
      <<"gtrsim",<<8819>>>>, <<"gvertneqq",<<8809,65024>>>>,
      <<"gvnE",<<8809,65024>>>>, <<"hArr",<<8660>>>>, <<"hairsp",<<8202>>>>,
      <<"half",<<189>>>>, <<"hamilt",<<8459>>>>, <<"hardcy",<<1098>>>>,
      <<"harr",<<8596>>>>, <<"harrcir",<<10568>>>>, <<"harrw",<<8621>>>>,
      <<"hbar",<<8463>>>>, <<"hcirc",<<293>>>>, <<"hearts",<<9829>>>>,
      <<"heartsuit",<<9829>>>>, <<"hellip",<<8230>>>>, <<"hercon",<<8889>>>>,
      <<"hfr",<<120101>>>>, <<"hksearow",<<10533>>>>,
      <<"hkswarow",<<10534>>>>, <<"hoarr",<<8703>>>>, <<"homtht",<<8763>>>>,
      <<"hookleftarrow",<<8617>>>>, <<"hookrightarrow",<<8618>>>>,
      <<"hopf",<<120153>>>>, <<"horbar",<<8213>>>>, <<"hscr",<<119997>>>>,
      <<"hslash",<<8463>>>>, <<"hstrok",<<295>>>>, <<"hybull",<<8259>>>>,
      <<"hyphen",<<8208>>>>, <<"iacute",<<237>>>>, <<"ic",<<8291>>>>,
      <<"icirc",<<238>>>>, <<"icy",<<1080>>>>, <<"iecy",<<1077>>>>,
      <<"iexcl",<<161>>>>, <<"iff",<<8660>>>>, <<"ifr",<<120102>>>>,
      <<"igrave",<<236>>>>, <<"ii",<<8520>>>>, <<"iiiint",<<10764>>>>,
      <<"iiint",<<8749>>>>, <<"iinfin",<<10716>>>>, <<"iiota",<<8489>>>>,
      <<"ijlig",<<307>>>>, <<"imacr",<<299>>>>, <<"image",<<8465>>>>,
      <<"imagline",<<8464>>>>, <<"imagpart",<<8465>>>>, <<"imath",<<305>>>>,
      <<"imof",<<8887>>>>, <<"imped",<<437>>>>, <<"in",<<8712>>>>,
      <<"incare",<<8453>>>>, <<"infin",<<8734>>>>, <<"infintie",<<10717>>>>,
      <<"inodot",<<305>>>>, <<"int",<<8747>>>>, <<"intcal",<<8890>>>>,
      <<"integers",<<8484>>>>, <<"intercal",<<8890>>>>,
      <<"intlarhk",<<10775>>>>, <<"intprod",<<10812>>>>, <<"iocy",<<1105>>>>,
      <<"iogon",<<303>>>>, <<"iopf",<<120154>>>>, <<"iota",<<953>>>>,
      <<"iprod",<<10812>>>>, <<"iquest",<<191>>>>, <<"iscr",<<119998>>>>,
      <<"isin",<<8712>>>>, <<"isinE",<<8953>>>>, <<"isindot",<<8949>>>>,
      <<"isins",<<8948>>>>, <<"isinsv",<<8947>>>>, <<"isinv",<<8712>>>>,
      <<"it",<<8290>>>>, <<"itilde",<<297>>>>, <<"iukcy",<<1110>>>>,
      <<"iuml",<<239>>>>, <<"jcirc",<<309>>>>, <<"jcy",<<1081>>>>,
      <<"jfr",<<120103>>>>, <<"jmath",<<567>>>>, <<"jopf",<<120155>>>>,
      <<"jscr",<<119999>>>>, <<"jsercy",<<1112>>>>, <<"jukcy",<<1108>>>>,
      <<"kappa",<<954>>>>, <<"kappav",<<1008>>>>, <<"kcedil",<<311>>>>,
      <<"kcy",<<1082>>>>, <<"kfr",<<120104>>>>, <<"kgreen",<<312>>>>,
      <<"khcy",<<1093>>>>, <<"kjcy",<<1116>>>>, <<"kopf",<<120156>>>>,
      <<"kscr",<<120000>>>>, <<"lAarr",<<8666>>>>, <<"lArr",<<8656>>>>,
      <<"lAtail",<<10523>>>>, <<"lBarr",<<10510>>>>, <<"lE",<<8806>>>>,
      <<"lEg",<<10891>>>>, <<"lHar",<<10594>>>>, <<"lacute",<<314>>>>,
      <<"laemptyv",<<10676>>>>, <<"lagran",<<8466>>>>, <<"lambda",<<955>>>>,
      <<"lang",<<10216>>>>, <<"langd",<<10641>>>>, <<"langle",<<10216>>>>,
      <<"lap",<<10885>>>>, <<"laquo",<<171>>>>, <<"larr",<<8592>>>>,
      <<"larrb",<<8676>>>>, <<"larrbfs",<<10527>>>>, <<"larrfs",<<10525>>>>,
      <<"larrhk",<<8617>>>>, <<"larrlp",<<8619>>>>, <<"larrpl",<<10553>>>>,
      <<"larrsim",<<10611>>>>, <<"larrtl",<<8610>>>>, <<"lat",<<10923>>>>,
      <<"latail",<<10521>>>>, <<"late",<<10925>>>>,
      <<"lates",<<10925,65024>>>>, <<"lbarr",<<10508>>>>,
      <<"lbbrk",<<10098>>>>, <<"lbrace",<<123>>>>, <<"lbrack",<<91>>>>,
      <<"lbrke",<<10635>>>>, <<"lbrksld",<<10639>>>>, <<"lbrkslu",<<10637>>>>,
      <<"lcaron",<<318>>>>, <<"lcedil",<<316>>>>, <<"lceil",<<8968>>>>,
      <<"lcub",<<123>>>>, <<"lcy",<<1083>>>>, <<"ldca",<<10550>>>>,
      <<"ldquo",<<8220>>>>, <<"ldquor",<<8222>>>>, <<"ldrdhar",<<10599>>>>,
      <<"ldrushar",<<10571>>>>, <<"ldsh",<<8626>>>>, <<"le",<<8804>>>>,
      <<"leftarrow",<<8592>>>>, <<"leftarrowtail",<<8610>>>>,
      <<"leftharpoondown",<<8637>>>>, <<"leftharpoonup",<<8636>>>>,
      <<"leftleftarrows",<<8647>>>>, <<"leftrightarrow",<<8596>>>>,
      <<"leftrightarrows",<<8646>>>>, <<"leftrightharpoons",<<8651>>>>,
      <<"leftrightsquigarrow",<<8621>>>>, <<"leftthreetimes",<<8907>>>>,
      <<"leg",<<8922>>>>, <<"leq",<<8804>>>>, <<"leqq",<<8806>>>>,
      <<"leqslant",<<10877>>>>, <<"les",<<10877>>>>, <<"lescc",<<10920>>>>,
      <<"lesdot",<<10879>>>>, <<"lesdoto",<<10881>>>>,
      <<"lesdotor",<<10883>>>>, <<"lesg",<<8922,65024>>>>,
      <<"lesges",<<10899>>>>, <<"lessapprox",<<10885>>>>,
      <<"lessdot",<<8918>>>>, <<"lesseqgtr",<<8922>>>>,
      <<"lesseqqgtr",<<10891>>>>, <<"lessgtr",<<8822>>>>,
      <<"lesssim",<<8818>>>>, <<"lfisht",<<10620>>>>, <<"lfloor",<<8970>>>>,
      <<"lfr",<<120105>>>>, <<"lg",<<8822>>>>, <<"lgE",<<10897>>>>,
      <<"lhard",<<8637>>>>, <<"lharu",<<8636>>>>, <<"lharul",<<10602>>>>,
      <<"lhblk",<<9604>>>>, <<"ljcy",<<1113>>>>, <<"ll",<<8810>>>>,
      <<"llarr",<<8647>>>>, <<"llcorner",<<8990>>>>, <<"llhard",<<10603>>>>,
      <<"lltri",<<9722>>>>, <<"lmidot",<<320>>>>, <<"lmoust",<<9136>>>>,
      <<"lmoustache",<<9136>>>>, <<"lnE",<<8808>>>>, <<"lnap",<<10889>>>>,
      <<"lnapprox",<<10889>>>>, <<"lne",<<10887>>>>, <<"lneq",<<10887>>>>,
      <<"lneqq",<<8808>>>>, <<"lnsim",<<8934>>>>, <<"loang",<<10220>>>>,
      <<"loarr",<<8701>>>>, <<"lobrk",<<10214>>>>,
      <<"longleftarrow",<<10229>>>>, <<"longleftrightarrow",<<10231>>>>,
      <<"longmapsto",<<10236>>>>, <<"longrightarrow",<<10230>>>>,
      <<"looparrowleft",<<8619>>>>, <<"looparrowright",<<8620>>>>,
      <<"lopar",<<10629>>>>, <<"lopf",<<120157>>>>, <<"loplus",<<10797>>>>,
      <<"lotimes",<<10804>>>>, <<"lowast",<<8727>>>>, <<"lowbar",<<95>>>>,
      <<"loz",<<9674>>>>, <<"lozenge",<<9674>>>>, <<"lozf",<<10731>>>>,
      <<"lpar",<<40>>>>, <<"lparlt",<<10643>>>>, <<"lrarr",<<8646>>>>,
      <<"lrcorner",<<8991>>>>, <<"lrhar",<<8651>>>>, <<"lrhard",<<10605>>>>,
      <<"lrm",<<8206>>>>, <<"lrtri",<<8895>>>>, <<"lsaquo",<<8249>>>>,
      <<"lscr",<<120001>>>>, <<"lsh",<<8624>>>>, <<"lsim",<<8818>>>>,
      <<"lsime",<<10893>>>>, <<"lsimg",<<10895>>>>, <<"lsqb",<<91>>>>,
      <<"lsquo",<<8216>>>>, <<"lsquor",<<8218>>>>, <<"lstrok",<<322>>>>,
      <<"lt",<<60>>>>, <<"ltcc",<<10918>>>>, <<"ltcir",<<10873>>>>,
      <<"ltdot",<<8918>>>>, <<"lthree",<<8907>>>>, <<"ltimes",<<8905>>>>,
      <<"ltlarr",<<10614>>>>, <<"ltquest",<<10875>>>>, <<"ltrPar",<<10646>>>>,
      <<"ltri",<<9667>>>>, <<"ltrie",<<8884>>>>, <<"ltrif",<<9666>>>>,
      <<"lurdshar",<<10570>>>>, <<"luruhar",<<10598>>>>,
      <<"lvertneqq",<<8808,65024>>>>, <<"lvnE",<<8808,65024>>>>,
      <<"mDDot",<<8762>>>>, <<"macr",<<175>>>>, <<"male",<<9794>>>>,
      <<"malt",<<10016>>>>, <<"maltese",<<10016>>>>, <<"map",<<8614>>>>,
      <<"mapsto",<<8614>>>>, <<"mapstodown",<<8615>>>>,
      <<"mapstoleft",<<8612>>>>, <<"mapstoup",<<8613>>>>,
      <<"marker",<<9646>>>>, <<"mcomma",<<10793>>>>, <<"mcy",<<1084>>>>,
      <<"mdash",<<8212>>>>, <<"measuredangle",<<8737>>>>,
      <<"mfr",<<120106>>>>, <<"mho",<<8487>>>>, <<"micro",<<181>>>>,
      <<"mid",<<8739>>>>, <<"midast",<<42>>>>, <<"midcir",<<10992>>>>,
      <<"middot",<<183>>>>, <<"minus",<<8722>>>>, <<"minusb",<<8863>>>>,
      <<"minusd",<<8760>>>>, <<"minusdu",<<10794>>>>, <<"mlcp",<<10971>>>>,
      <<"mldr",<<8230>>>>, <<"mnplus",<<8723>>>>, <<"models",<<8871>>>>,
      <<"mopf",<<120158>>>>, <<"mp",<<8723>>>>, <<"mscr",<<120002>>>>,
      <<"mstpos",<<8766>>>>, <<"mu",<<956>>>>, <<"multimap",<<8888>>>>,
      <<"mumap",<<8888>>>>, <<"nGg",<<8921,824>>>>, <<"nGt",<<8811,8402>>>>,
      <<"nGtv",<<8811,824>>>>, <<"nLeftarrow",<<8653>>>>,
      <<"nLeftrightarrow",<<8654>>>>, <<"nLl",<<8920,824>>>>,
      <<"nLt",<<8810,8402>>>>, <<"nLtv",<<8810,824>>>>,
      <<"nRightarrow",<<8655>>>>, <<"nVDash",<<8879>>>>,
      <<"nVdash",<<8878>>>>, <<"nabla",<<8711>>>>, <<"nacute",<<324>>>>,
      <<"nang",<<8736,8402>>>>, <<"nap",<<8777>>>>, <<"napE",<<10864,824>>>>,
      <<"napid",<<8779,824>>>>, <<"napos",<<329>>>>, <<"napprox",<<8777>>>>,
      <<"natur",<<9838>>>>, <<"natural",<<9838>>>>, <<"naturals",<<8469>>>>,
      <<"nbsp",<<160>>>>, <<"nbump",<<8782,824>>>>, <<"nbumpe",<<8783,824>>>>,
      <<"ncap",<<10819>>>>, <<"ncaron",<<328>>>>, <<"ncedil",<<326>>>>,
      <<"ncong",<<8775>>>>, <<"ncongdot",<<10861,824>>>>,
      <<"ncup",<<10818>>>>, <<"ncy",<<1085>>>>, <<"ndash",<<8211>>>>,
      <<"ne",<<8800>>>>, <<"neArr",<<8663>>>>, <<"nearhk",<<10532>>>>,
      <<"nearr",<<8599>>>>, <<"nearrow",<<8599>>>>, <<"nedot",<<8784,824>>>>,
      <<"nequiv",<<8802>>>>, <<"nesear",<<10536>>>>, <<"nesim",<<8770,824>>>>,
      <<"nexist",<<8708>>>>, <<"nexists",<<8708>>>>, <<"nfr",<<120107>>>>,
      <<"ngE",<<8807,824>>>>, <<"nge",<<8817>>>>, <<"ngeq",<<8817>>>>,
      <<"ngeqq",<<8807,824>>>>, <<"ngeqslant",<<10878,824>>>>,
      <<"nges",<<10878,824>>>>, <<"ngsim",<<8821>>>>, <<"ngt",<<8815>>>>,
      <<"ngtr",<<8815>>>>, <<"nhArr",<<8654>>>>, <<"nharr",<<8622>>>>,
      <<"nhpar",<<10994>>>>, <<"ni",<<8715>>>>, <<"nis",<<8956>>>>,
      <<"nisd",<<8954>>>>, <<"niv",<<8715>>>>, <<"njcy",<<1114>>>>,
      <<"nlArr",<<8653>>>>, <<"nlE",<<8806,824>>>>, <<"nlarr",<<8602>>>>,
      <<"nldr",<<8229>>>>, <<"nle",<<8816>>>>, <<"nleftarrow",<<8602>>>>,
      <<"nleftrightarrow",<<8622>>>>, <<"nleq",<<8816>>>>,
      <<"nleqq",<<8806,824>>>>, <<"nleqslant",<<10877,824>>>>,
      <<"nles",<<10877,824>>>>, <<"nless",<<8814>>>>, <<"nlsim",<<8820>>>>,
      <<"nlt",<<8814>>>>, <<"nltri",<<8938>>>>, <<"nltrie",<<8940>>>>,
      <<"nmid",<<8740>>>>, <<"nopf",<<120159>>>>, <<"not",<<172>>>>,
      <<"notin",<<8713>>>>, <<"notinE",<<8953,824>>>>,
      <<"notindot",<<8949,824>>>>, <<"notinva",<<8713>>>>,
      <<"notinvb",<<8951>>>>, <<"notinvc",<<8950>>>>, <<"notni",<<8716>>>>,
      <<"notniva",<<8716>>>>, <<"notnivb",<<8958>>>>, <<"notnivc",<<8957>>>>,
      <<"npar",<<8742>>>>, <<"nparallel",<<8742>>>>,
      <<"nparsl",<<11005,8421>>>>, <<"npart",<<8706,824>>>>,
      <<"npolint",<<10772>>>>, <<"npr",<<8832>>>>, <<"nprcue",<<8928>>>>,
      <<"npre",<<10927,824>>>>, <<"nprec",<<8832>>>>,
      <<"npreceq",<<10927,824>>>>, <<"nrArr",<<8655>>>>, <<"nrarr",<<8603>>>>,
      <<"nrarrc",<<10547,824>>>>, <<"nrarrw",<<8605,824>>>>,
      <<"nrightarrow",<<8603>>>>, <<"nrtri",<<8939>>>>, <<"nrtrie",<<8941>>>>,
      <<"nsc",<<8833>>>>, <<"nsccue",<<8929>>>>, <<"nsce",<<10928,824>>>>,
      <<"nscr",<<120003>>>>, <<"nshortmid",<<8740>>>>,
      <<"nshortparallel",<<8742>>>>, <<"nsim",<<8769>>>>,
      <<"nsime",<<8772>>>>, <<"nsimeq",<<8772>>>>, <<"nsmid",<<8740>>>>,
      <<"nspar",<<8742>>>>, <<"nsqsube",<<8930>>>>, <<"nsqsupe",<<8931>>>>,
      <<"nsub",<<8836>>>>, <<"nsubE",<<10949,824>>>>, <<"nsube",<<8840>>>>,
      <<"nsubset",<<8834,8402>>>>, <<"nsubseteq",<<8840>>>>,
      <<"nsubseteqq",<<10949,824>>>>, <<"nsucc",<<8833>>>>,
      <<"nsucceq",<<10928,824>>>>, <<"nsup",<<8837>>>>,
      <<"nsupE",<<10950,824>>>>, <<"nsupe",<<8841>>>>,
      <<"nsupset",<<8835,8402>>>>, <<"nsupseteq",<<8841>>>>,
      <<"nsupseteqq",<<10950,824>>>>, <<"ntgl",<<8825>>>>,
      <<"ntilde",<<241>>>>, <<"ntlg",<<8824>>>>, <<"ntriangleleft",<<8938>>>>,
      <<"ntrianglelefteq",<<8940>>>>, <<"ntriangleright",<<8939>>>>,
      <<"ntrianglerighteq",<<8941>>>>, <<"nu",<<957>>>>, <<"num",<<35>>>>,
      <<"numero",<<8470>>>>, <<"numsp",<<8199>>>>, <<"nvDash",<<8877>>>>,
      <<"nvHarr",<<10500>>>>, <<"nvap",<<8781,8402>>>>, <<"nvdash",<<8876>>>>,
      <<"nvge",<<8805,8402>>>>, <<"nvgt",<<62,8402>>>>,
      <<"nvinfin",<<10718>>>>, <<"nvlArr",<<10498>>>>,
      <<"nvle",<<8804,8402>>>>, <<"nvlt",<<60,8402>>>>,
      <<"nvltrie",<<8884,8402>>>>, <<"nvrArr",<<10499>>>>,
      <<"nvrtrie",<<8885,8402>>>>, <<"nvsim",<<8764,8402>>>>,
      <<"nwArr",<<8662>>>>, <<"nwarhk",<<10531>>>>, <<"nwarr",<<8598>>>>,
      <<"nwarrow",<<8598>>>>, <<"nwnear",<<10535>>>>, <<"oS",<<9416>>>>,
      <<"oacute",<<243>>>>, <<"oast",<<8859>>>>, <<"ocir",<<8858>>>>,
      <<"ocirc",<<244>>>>, <<"ocy",<<1086>>>>, <<"odash",<<8861>>>>,
      <<"odblac",<<337>>>>, <<"odiv",<<10808>>>>, <<"odot",<<8857>>>>,
      <<"odsold",<<10684>>>>, <<"oelig",<<339>>>>, <<"ofcir",<<10687>>>>,
      <<"ofr",<<120108>>>>, <<"ogon",<<731>>>>, <<"ograve",<<242>>>>,
      <<"ogt",<<10689>>>>, <<"ohbar",<<10677>>>>, <<"ohm",<<937>>>>,
      <<"oint",<<8750>>>>, <<"olarr",<<8634>>>>, <<"olcir",<<10686>>>>,
      <<"olcross",<<10683>>>>, <<"oline",<<8254>>>>, <<"olt",<<10688>>>>,
      <<"omacr",<<333>>>>, <<"omega",<<969>>>>, <<"omicron",<<959>>>>,
      <<"omid",<<10678>>>>, <<"ominus",<<8854>>>>, <<"oopf",<<120160>>>>,
      <<"opar",<<10679>>>>, <<"operp",<<10681>>>>, <<"oplus",<<8853>>>>,
      <<"or",<<8744>>>>, <<"orarr",<<8635>>>>, <<"ord",<<10845>>>>,
      <<"order",<<8500>>>>, <<"orderof",<<8500>>>>, <<"ordf",<<170>>>>,
      <<"ordm",<<186>>>>, <<"origof",<<8886>>>>, <<"oror",<<10838>>>>,
      <<"orslope",<<10839>>>>, <<"orv",<<10843>>>>, <<"oscr",<<8500>>>>,
      <<"oslash",<<248>>>>, <<"osol",<<8856>>>>, <<"otilde",<<245>>>>,
      <<"otimes",<<8855>>>>, <<"otimesas",<<10806>>>>, <<"ouml",<<246>>>>,
      <<"ovbar",<<9021>>>>, <<"par",<<8741>>>>, <<"para",<<182>>>>,
      <<"parallel",<<8741>>>>, <<"parsim",<<10995>>>>, <<"parsl",<<11005>>>>,
      <<"part",<<8706>>>>, <<"pcy",<<1087>>>>, <<"percnt",<<37>>>>,
      <<"period",<<46>>>>, <<"permil",<<8240>>>>, <<"perp",<<8869>>>>,
      <<"pertenk",<<8241>>>>, <<"pfr",<<120109>>>>, <<"phi",<<966>>>>,
      <<"phiv",<<981>>>>, <<"phmmat",<<8499>>>>, <<"phone",<<9742>>>>,
      <<"pi",<<960>>>>, <<"pitchfork",<<8916>>>>, <<"piv",<<982>>>>,
      <<"planck",<<8463>>>>, <<"planckh",<<8462>>>>, <<"plankv",<<8463>>>>,
      <<"plus",<<43>>>>, <<"plusacir",<<10787>>>>, <<"plusb",<<8862>>>>,
      <<"pluscir",<<10786>>>>, <<"plusdo",<<8724>>>>, <<"plusdu",<<10789>>>>,
      <<"pluse",<<10866>>>>, <<"plusmn",<<177>>>>, <<"plussim",<<10790>>>>,
      <<"plustwo",<<10791>>>>, <<"pm",<<177>>>>, <<"pointint",<<10773>>>>,
      <<"popf",<<120161>>>>, <<"pound",<<163>>>>, <<"pr",<<8826>>>>,
      <<"prE",<<10931>>>>, <<"prap",<<10935>>>>, <<"prcue",<<8828>>>>,
      <<"pre",<<10927>>>>, <<"prec",<<8826>>>>, <<"precapprox",<<10935>>>>,
      <<"preccurlyeq",<<8828>>>>, <<"preceq",<<10927>>>>,
      <<"precnapprox",<<10937>>>>, <<"precneqq",<<10933>>>>,
      <<"precnsim",<<8936>>>>, <<"precsim",<<8830>>>>, <<"prime",<<8242>>>>,
      <<"primes",<<8473>>>>, <<"prnE",<<10933>>>>, <<"prnap",<<10937>>>>,
      <<"prnsim",<<8936>>>>, <<"prod",<<8719>>>>, <<"profalar",<<9006>>>>,
      <<"profline",<<8978>>>>, <<"profsurf",<<8979>>>>, <<"prop",<<8733>>>>,
      <<"propto",<<8733>>>>, <<"prsim",<<8830>>>>, <<"prurel",<<8880>>>>,
      <<"pscr",<<120005>>>>, <<"psi",<<968>>>>, <<"puncsp",<<8200>>>>,
      <<"qfr",<<120110>>>>, <<"qint",<<10764>>>>, <<"qopf",<<120162>>>>,
      <<"qprime",<<8279>>>>, <<"qscr",<<120006>>>>,
      <<"quaternions",<<8461>>>>, <<"quatint",<<10774>>>>, <<"quest",<<63>>>>,
      <<"questeq",<<8799>>>>, <<"quot",<<34>>>>, <<"rAarr",<<8667>>>>,
      <<"rArr",<<8658>>>>, <<"rAtail",<<10524>>>>, <<"rBarr",<<10511>>>>,
      <<"rHar",<<10596>>>>, <<"race",<<8765,817>>>>, <<"racute",<<341>>>>,
      <<"radic",<<8730>>>>, <<"raemptyv",<<10675>>>>, <<"rang",<<10217>>>>,
      <<"rangd",<<10642>>>>, <<"range",<<10661>>>>, <<"rangle",<<10217>>>>,
      <<"raquo",<<187>>>>, <<"rarr",<<8594>>>>, <<"rarrap",<<10613>>>>,
      <<"rarrb",<<8677>>>>, <<"rarrbfs",<<10528>>>>, <<"rarrc",<<10547>>>>,
      <<"rarrfs",<<10526>>>>, <<"rarrhk",<<8618>>>>, <<"rarrlp",<<8620>>>>,
      <<"rarrpl",<<10565>>>>, <<"rarrsim",<<10612>>>>, <<"rarrtl",<<8611>>>>,
      <<"rarrw",<<8605>>>>, <<"ratail",<<10522>>>>, <<"ratio",<<8758>>>>,
      <<"rationals",<<8474>>>>, <<"rbarr",<<10509>>>>, <<"rbbrk",<<10099>>>>,
      <<"rbrace",<<125>>>>, <<"rbrack",<<93>>>>, <<"rbrke",<<10636>>>>,
      <<"rbrksld",<<10638>>>>, <<"rbrkslu",<<10640>>>>, <<"rcaron",<<345>>>>,
      <<"rcedil",<<343>>>>, <<"rceil",<<8969>>>>, <<"rcub",<<125>>>>,
      <<"rcy",<<1088>>>>, <<"rdca",<<10551>>>>, <<"rdldhar",<<10601>>>>,
      <<"rdquo",<<8221>>>>, <<"rdquor",<<8221>>>>, <<"rdsh",<<8627>>>>,
      <<"real",<<8476>>>>, <<"realine",<<8475>>>>, <<"realpart",<<8476>>>>,
      <<"reals",<<8477>>>>, <<"rect",<<9645>>>>, <<"reg",<<174>>>>,
      <<"rfisht",<<10621>>>>, <<"rfloor",<<8971>>>>, <<"rfr",<<120111>>>>,
      <<"rhard",<<8641>>>>, <<"rharu",<<8640>>>>, <<"rharul",<<10604>>>>,
      <<"rho",<<961>>>>, <<"rhov",<<1009>>>>, <<"rightarrow",<<8594>>>>,
      <<"rightarrowtail",<<8611>>>>, <<"rightharpoondown",<<8641>>>>,
      <<"rightharpoonup",<<8640>>>>, <<"rightleftarrows",<<8644>>>>,
      <<"rightleftharpoons",<<8652>>>>, <<"rightrightarrows",<<8649>>>>,
      <<"rightsquigarrow",<<8605>>>>, <<"rightthreetimes",<<8908>>>>,
      <<"ring",<<730>>>>, <<"risingdotseq",<<8787>>>>, <<"rlarr",<<8644>>>>,
      <<"rlhar",<<8652>>>>, <<"rlm",<<8207>>>>, <<"rmoust",<<9137>>>>,
      <<"rmoustache",<<9137>>>>, <<"rnmid",<<10990>>>>, <<"roang",<<10221>>>>,
      <<"roarr",<<8702>>>>, <<"robrk",<<10215>>>>, <<"ropar",<<10630>>>>,
      <<"ropf",<<120163>>>>, <<"roplus",<<10798>>>>, <<"rotimes",<<10805>>>>,
      <<"rpar",<<41>>>>, <<"rpargt",<<10644>>>>, <<"rppolint",<<10770>>>>,
      <<"rrarr",<<8649>>>>, <<"rsaquo",<<8250>>>>, <<"rscr",<<120007>>>>,
      <<"rsh",<<8625>>>>, <<"rsqb",<<93>>>>, <<"rsquo",<<8217>>>>,
      <<"rsquor",<<8217>>>>, <<"rthree",<<8908>>>>, <<"rtimes",<<8906>>>>,
      <<"rtri",<<9657>>>>, <<"rtrie",<<8885>>>>, <<"rtrif",<<9656>>>>,
      <<"rtriltri",<<10702>>>>, <<"ruluhar",<<10600>>>>, <<"rx",<<8478>>>>,
      <<"sacute",<<347>>>>, <<"sbquo",<<8218>>>>, <<"sc",<<8827>>>>,
      <<"scE",<<10932>>>>, <<"scap",<<10936>>>>, <<"scaron",<<353>>>>,
      <<"sccue",<<8829>>>>, <<"sce",<<10928>>>>, <<"scedil",<<351>>>>,
      <<"scirc",<<349>>>>, <<"scnE",<<10934>>>>, <<"scnap",<<10938>>>>,
      <<"scnsim",<<8937>>>>, <<"scpolint",<<10771>>>>, <<"scsim",<<8831>>>>,
      <<"scy",<<1089>>>>, <<"sdot",<<8901>>>>, <<"sdotb",<<8865>>>>,
      <<"sdote",<<10854>>>>, <<"seArr",<<8664>>>>, <<"searhk",<<10533>>>>,
      <<"searr",<<8600>>>>, <<"searrow",<<8600>>>>, <<"sect",<<167>>>>,
      <<"semi",<<59>>>>, <<"seswar",<<10537>>>>, <<"setminus",<<8726>>>>,
      <<"setmn",<<8726>>>>, <<"sext",<<10038>>>>, <<"sfr",<<120112>>>>,
      <<"sfrown",<<8994>>>>, <<"sharp",<<9839>>>>, <<"shchcy",<<1097>>>>,
      <<"shcy",<<1096>>>>, <<"shortmid",<<8739>>>>,
      <<"shortparallel",<<8741>>>>, <<"shy",<<173>>>>, <<"sigma",<<963>>>>,
      <<"sigmaf",<<962>>>>, <<"sigmav",<<962>>>>, <<"sim",<<8764>>>>,
      <<"simdot",<<10858>>>>, <<"sime",<<8771>>>>, <<"simeq",<<8771>>>>,
      <<"simg",<<10910>>>>, <<"simgE",<<10912>>>>, <<"siml",<<10909>>>>,
      <<"simlE",<<10911>>>>, <<"simne",<<8774>>>>, <<"simplus",<<10788>>>>,
      <<"simrarr",<<10610>>>>, <<"slarr",<<8592>>>>,
      <<"smallsetminus",<<8726>>>>, <<"smashp",<<10803>>>>,
      <<"smeparsl",<<10724>>>>, <<"smid",<<8739>>>>, <<"smile",<<8995>>>>,
      <<"smt",<<10922>>>>, <<"smte",<<10924>>>>, <<"smtes",<<10924,65024>>>>,
      <<"softcy",<<1100>>>>, <<"sol",<<47>>>>, <<"solb",<<10692>>>>,
      <<"solbar",<<9023>>>>, <<"sopf",<<120164>>>>, <<"spades",<<9824>>>>,
      <<"spadesuit",<<9824>>>>, <<"spar",<<8741>>>>, <<"sqcap",<<8851>>>>,
      <<"sqcaps",<<8851,65024>>>>, <<"sqcup",<<8852>>>>,
      <<"sqcups",<<8852,65024>>>>, <<"sqsub",<<8847>>>>,
      <<"sqsube",<<8849>>>>, <<"sqsubset",<<8847>>>>,
      <<"sqsubseteq",<<8849>>>>, <<"sqsup",<<8848>>>>, <<"sqsupe",<<8850>>>>,
      <<"sqsupset",<<8848>>>>, <<"sqsupseteq",<<8850>>>>, <<"squ",<<9633>>>>,
      <<"square",<<9633>>>>, <<"squarf",<<9642>>>>, <<"squf",<<9642>>>>,
      <<"srarr",<<8594>>>>, <<"sscr",<<120008>>>>, <<"ssetmn",<<8726>>>>,
      <<"ssmile",<<8995>>>>, <<"sstarf",<<8902>>>>, <<"star",<<9734>>>>,
      <<"starf",<<9733>>>>, <<"straightepsilon",<<1013>>>>,
      <<"straightphi",<<981>>>>, <<"strns",<<175>>>>, <<"sub",<<8834>>>>,
      <<"subE",<<10949>>>>, <<"subdot",<<10941>>>>, <<"sube",<<8838>>>>,
      <<"subedot",<<10947>>>>, <<"submult",<<10945>>>>, <<"subnE",<<10955>>>>,
      <<"subne",<<8842>>>>, <<"subplus",<<10943>>>>, <<"subrarr",<<10617>>>>,
      <<"subset",<<8834>>>>, <<"subseteq",<<8838>>>>,
      <<"subseteqq",<<10949>>>>, <<"subsetneq",<<8842>>>>,
      <<"subsetneqq",<<10955>>>>, <<"subsim",<<10951>>>>,
      <<"subsub",<<10965>>>>, <<"subsup",<<10963>>>>, <<"succ",<<8827>>>>,
      <<"succapprox",<<10936>>>>, <<"succcurlyeq",<<8829>>>>,
      <<"succeq",<<10928>>>>, <<"succnapprox",<<10938>>>>,
      <<"succneqq",<<10934>>>>, <<"succnsim",<<8937>>>>,
      <<"succsim",<<8831>>>>, <<"sum",<<8721>>>>, <<"sung",<<9834>>>>,
      <<"sup",<<8835>>>>, <<"sup1",<<185>>>>, <<"sup2",<<178>>>>,
      <<"sup3",<<179>>>>, <<"supE",<<10950>>>>, <<"supdot",<<10942>>>>,
      <<"supdsub",<<10968>>>>, <<"supe",<<8839>>>>, <<"supedot",<<10948>>>>,
      <<"suphsol",<<10185>>>>, <<"suphsub",<<10967>>>>,
      <<"suplarr",<<10619>>>>, <<"supmult",<<10946>>>>, <<"supnE",<<10956>>>>,
      <<"supne",<<8843>>>>, <<"supplus",<<10944>>>>, <<"supset",<<8835>>>>,
      <<"supseteq",<<8839>>>>, <<"supseteqq",<<10950>>>>,
      <<"supsetneq",<<8843>>>>, <<"supsetneqq",<<10956>>>>,
      <<"supsim",<<10952>>>>, <<"supsub",<<10964>>>>, <<"supsup",<<10966>>>>,
      <<"swArr",<<8665>>>>, <<"swarhk",<<10534>>>>, <<"swarr",<<8601>>>>,
      <<"swarrow",<<8601>>>>, <<"swnwar",<<10538>>>>, <<"szlig",<<223>>>>,
      <<"target",<<8982>>>>, <<"tau",<<964>>>>, <<"tbrk",<<9140>>>>,
      <<"tcaron",<<357>>>>, <<"tcedil",<<355>>>>, <<"tcy",<<1090>>>>,
      <<"tdot",<<8411>>>>, <<"telrec",<<8981>>>>, <<"tfr",<<120113>>>>,
      <<"there4",<<8756>>>>, <<"therefore",<<8756>>>>, <<"theta",<<952>>>>,
      <<"thetasym",<<977>>>>, <<"thetav",<<977>>>>,
      <<"thickapprox",<<8776>>>>, <<"thicksim",<<8764>>>>,
      <<"thinsp",<<8201>>>>, <<"thkap",<<8776>>>>, <<"thksim",<<8764>>>>,
      <<"thorn",<<254>>>>, <<"tilde",<<732>>>>, <<"times",<<215>>>>,
      <<"timesb",<<8864>>>>, <<"timesbar",<<10801>>>>, <<"timesd",<<10800>>>>,
      <<"tint",<<8749>>>>, <<"toea",<<10536>>>>, <<"top",<<8868>>>>,
      <<"topbot",<<9014>>>>, <<"topcir",<<10993>>>>, <<"topf",<<120165>>>>,
      <<"topfork",<<10970>>>>, <<"tosa",<<10537>>>>, <<"tprime",<<8244>>>>,
      <<"trade",<<8482>>>>, <<"triangle",<<9653>>>>,
      <<"triangledown",<<9663>>>>, <<"triangleleft",<<9667>>>>,
      <<"trianglelefteq",<<8884>>>>, <<"triangleq",<<8796>>>>,
      <<"triangleright",<<9657>>>>, <<"trianglerighteq",<<8885>>>>,
      <<"tridot",<<9708>>>>, <<"trie",<<8796>>>>, <<"triminus",<<10810>>>>,
      <<"triplus",<<10809>>>>, <<"trisb",<<10701>>>>, <<"tritime",<<10811>>>>,
      <<"trpezium",<<9186>>>>, <<"tscr",<<120009>>>>, <<"tscy",<<1094>>>>,
      <<"tshcy",<<1115>>>>, <<"tstrok",<<359>>>>, <<"twixt",<<8812>>>>,
      <<"twoheadleftarrow",<<8606>>>>, <<"twoheadrightarrow",<<8608>>>>,
      <<"uArr",<<8657>>>>, <<"uHar",<<10595>>>>, <<"uacute",<<250>>>>,
      <<"uarr",<<8593>>>>, <<"ubrcy",<<1118>>>>, <<"ubreve",<<365>>>>,
      <<"ucirc",<<251>>>>, <<"ucy",<<1091>>>>, <<"udarr",<<8645>>>>,
      <<"udblac",<<369>>>>, <<"udhar",<<10606>>>>, <<"ufisht",<<10622>>>>,
      <<"ufr",<<120114>>>>, <<"ugrave",<<249>>>>, <<"uharl",<<8639>>>>,
      <<"uharr",<<8638>>>>, <<"uhblk",<<9600>>>>, <<"ulcorn",<<8988>>>>,
      <<"ulcorner",<<8988>>>>, <<"ulcrop",<<8975>>>>, <<"ultri",<<9720>>>>,
      <<"umacr",<<363>>>>, <<"uml",<<168>>>>, <<"uogon",<<371>>>>,
      <<"uopf",<<120166>>>>, <<"uparrow",<<8593>>>>,
      <<"updownarrow",<<8597>>>>, <<"upharpoonleft",<<8639>>>>,
      <<"upharpoonright",<<8638>>>>, <<"uplus",<<8846>>>>, <<"upsi",<<965>>>>,
      <<"upsih",<<978>>>>, <<"upsilon",<<965>>>>, <<"upuparrows",<<8648>>>>,
      <<"urcorn",<<8989>>>>, <<"urcorner",<<8989>>>>, <<"urcrop",<<8974>>>>,
      <<"uring",<<367>>>>, <<"urtri",<<9721>>>>, <<"uscr",<<120010>>>>,
      <<"utdot",<<8944>>>>, <<"utilde",<<361>>>>, <<"utri",<<9653>>>>,
      <<"utrif",<<9652>>>>, <<"uuarr",<<8648>>>>, <<"uuml",<<252>>>>,
      <<"uwangle",<<10663>>>>, <<"vArr",<<8661>>>>, <<"vBar",<<10984>>>>,
      <<"vBarv",<<10985>>>>, <<"vDash",<<8872>>>>, <<"vangrt",<<10652>>>>,
      <<"varepsilon",<<1013>>>>, <<"varkappa",<<1008>>>>,
      <<"varnothing",<<8709>>>>, <<"varphi",<<981>>>>, <<"varpi",<<982>>>>,
      <<"varpropto",<<8733>>>>, <<"varr",<<8597>>>>, <<"varrho",<<1009>>>>,
      <<"varsigma",<<962>>>>, <<"varsubsetneq",<<8842,65024>>>>,
      <<"varsubsetneqq",<<10955,65024>>>>, <<"varsupsetneq",<<8843,65024>>>>,
      <<"varsupsetneqq",<<10956,65024>>>>, <<"vartheta",<<977>>>>,
      <<"vartriangleleft",<<8882>>>>, <<"vartriangleright",<<8883>>>>,
      <<"vcy",<<1074>>>>, <<"vdash",<<8866>>>>, <<"vee",<<8744>>>>,
      <<"veebar",<<8891>>>>, <<"veeeq",<<8794>>>>, <<"vellip",<<8942>>>>,
      <<"verbar",<<124>>>>, <<"vert",<<124>>>>, <<"vfr",<<120115>>>>,
      <<"vltri",<<8882>>>>, <<"vnsub",<<8834,8402>>>>,
      <<"vnsup",<<8835,8402>>>>, <<"vopf",<<120167>>>>, <<"vprop",<<8733>>>>,
      <<"vrtri",<<8883>>>>, <<"vscr",<<120011>>>>,
      <<"vsubnE",<<10955,65024>>>>, <<"vsubne",<<8842,65024>>>>,
      <<"vsupnE",<<10956,65024>>>>, <<"vsupne",<<8843,65024>>>>,
      <<"vzigzag",<<10650>>>>, <<"wcirc",<<373>>>>, <<"wedbar",<<10847>>>>,
      <<"wedge",<<8743>>>>, <<"wedgeq",<<8793>>>>, <<"weierp",<<8472>>>>,
      <<"wfr",<<120116>>>>, <<"wopf",<<120168>>>>, <<"wp",<<8472>>>>,
      <<"wr",<<8768>>>>, <<"wreath",<<8768>>>>, <<"wscr",<<120012>>>>,
      <<"xcap",<<8898>>>>, <<"xcirc",<<9711>>>>, <<"xcup",<<8899>>>>,
      <<"xdtri",<<9661>>>>, <<"xfr",<<120117>>>>, <<"xhArr",<<10234>>>>,
      <<"xharr",<<10231>>>>, <<"xi",<<958>>>>, <<"xlArr",<<10232>>>>,
      <<"xlarr",<<10229>>>>, <<"xmap",<<10236>>>>, <<"xnis",<<8955>>>>,
      <<"xodot",<<10752>>>>, <<"xopf",<<120169>>>>, <<"xoplus",<<10753>>>>,
      <<"xotime",<<10754>>>>, <<"xrArr",<<10233>>>>, <<"xrarr",<<10230>>>>,
      <<"xscr",<<120013>>>>, <<"xsqcup",<<10758>>>>, <<"xuplus",<<10756>>>>,
      <<"xutri",<<9651>>>>, <<"xvee",<<8897>>>>, <<"xwedge",<<8896>>>>,
      <<"yacute",<<253>>>>, <<"yacy",<<1103>>>>, <<"ycirc",<<375>>>>,
      <<"ycy",<<1099>>>>, <<"yen",<<165>>>>, <<"yfr",<<120118>>>>,
      <<"yicy",<<1111>>>>, <<"yopf",<<120170>>>>, <<"yscr",<<120014>>>>,
      <<"yucy",<<1102>>>>, <<"yuml",<<255>>>>, <<"zacute",<<378>>>>,
      <<"zcaron",<<382>>>>, <<"zcy",<<1079>>>>, <<"zdot",<<380>>>>,
      <<"zeetrf",<<8488>>>>, <<"zeta",<<950>>>>, <<"zfr",<<120119>>>>,
      <<"zhcy",<<1078>>>>, <<"zigrarr",<<8669>>>>, <<"zopf",<<120171>>>>,
      <<"zscr",<<120015>>>>, <<"zwj",<<8205>>>>, <<"zwnj",<<8204>>>> }

\* The letters and digits in the order of their code points.
AlnumChars ==
    << "0","1","2","3","4","5","6","7","8","9",
       "A","B","C","D","E","F","G","H","I","J","K","L","M",
       "N","O","P","Q","R","S","T","U","V","W","X","Y","Z",
       "a","b","c","d","e","f","g","h","i","j","k","l","m",
       "n","o","p","q","r","s","t","u","v","w","x","y","z" >>

\* The name of an entity, made of letters and digits, as a string.
RECURSIVE NameString(_)
NameString(name) ==
    IF name = << >> THEN ""
    ELSE AlnumChars[IF name[1] <= 57 THEN name[1] - 47
                    ELSE IF name[1] <= 90 THEN name[1] - 54
                    ELSE name[1] - 60] \o NameString(Tail(name))

\* ---- scanning ----

\* The character at position p, or -1 beyond the ends.
At(t, p) == IF p >= 1 /\ p <= Len(t) THEN t[p] ELSE -1

\* The first of the positions in found, or 0 when there is none.
First(found) ==
    IF found = {} THEN 0 ELSE CHOOSE q \in found : \A m \in found : q <= m

\* The first of the positions in found, or p when there is none and p is
\* beyond the end of t, or else the position after the end of t.
FirstOrEnd(t, p, found) ==
    IF found # {} THEN First(found)
    ELSE IF p > Len(t) THEN p
    ELSE Len(t) + 1

\* The first position at or after p that holds c, or 0.
Find(t, c, p) == First({q \in p..Len(t) : t[q] = c})

\* The first position at or after p whose character is not in cls.
Skip(t, p, cls) == FirstOrEnd(t, p, {q \in p..Len(t) : t[q] \notin cls})

\* The first position at or after p whose character is in cls.
SkipNot(t, p, cls) == FirstOrEnd(t, p, {q \in p..Len(t) : t[q] \in cls})

StartsWith(t, p, w) ==
    p + Len(w) - 1 <= Len(t) /\ SubSeq(t, p, p + Len(w) - 1) = w

\* t[a:b + 1] of Python: the part of t from a that ends at b or earlier.
Slice(t, a, b) == SubSeq(t, a, IF b > Len(t) THEN Len(t) ELSE b)

\* Whether the character c matches the lower-case ASCII letter l of a
\* pattern compiled with re.I.
SameIgnoringCase(c, l) ==
    c = l \/ c = l - 32 \/ <<l, c>> \in IgnoreCaseExtra

\* Whether the word w of lower-case ASCII letters, compiled with re.I,
\* matches at p.
StartsWithIgnoringCase(t, p, w) ==
    /\ p + Len(w) - 1 <= Len(t)
    /\ \A k \in 1..Len(w) : SameIgnoringCase(t[p + k - 1], w[k])

\* str.strip()
Strip(s) ==
    LET keep == {k \in 1..Len(s) : s[k] \notin WhiteSpace} IN
    IF keep = {} THEN << >>
    ELSE SubSeq(s, CHOOSE k \in keep : \A m \in keep : k <= m,
                   CHOOSE k \in keep : \A m \in keep : k >= m)

\* (?:\s|/(?!>))* from p: the position after it.
SkipBlanksAndSlashes(t, p) ==
    FirstOrEnd(t, p,
        {q \in p..Len(t) :
            ~(t[q] \in WhiteSpace \/ (t[q] = 47 /\ At(t, q + 1) # 62))})

\* The optional value of an attribute,
\*   (?:\s*=+\s*('[^']*'|"[^"]*"|(?!['"])[^>\s]*)\s*)?
\* tried at r: the position after it, r itself when there is no value.  A
\* quote that is never closed makes the expression give back first the
\* white space before it (the value is then empty), then one of several "="
\* (a bare value then starts at that "=").
ValueEnd(t, r) ==
    LET a == Skip(t, r, WhiteSpace)
        b == Skip(t, a, {61})
        c == Skip(t, b, WhiteSpace)
        closing == Find(t, At(t, c), c + 1)
    IN  IF b = a THEN r
        ELSE IF At(t, c) \in {34, 39}
        THEN IF closing # 0 THEN Skip(t, closing + 1, WhiteSpace)
             ELSE IF c > b THEN c
             ELSE IF b - a >= 2
             THEN Skip(t, SkipNot(t, b - 1, WhiteSpace \cup {62}), WhiteSpace)
             ELSE r
        ELSE Skip(t, SkipNot(t, c, WhiteSpace \cup {62}), WhiteSpace)

\* Whether an attribute name, (?<=['"\s/])[^\s/>][^\s/=>]*, starts at q.
AttrStarts(t, q) ==
    /\ q <= Len(t)
    /\ At(t, q - 1) \in WhiteSpace \cup {34, 39, 47}
    /\ t[q] \notin WhiteSpace \cup {47, 62}

\* The position after the attribute that starts at q: its name, its
\* optional value, (?:\s|/(?!>))*.
AttrEnd(t, q) ==
    SkipBlanksAndSlashes(t,
        ValueEnd(t, SkipNot(t, q + 1, WhiteSpace \cup {47, 61, 62})))

\* while k < endpos: m = attrfind_tolerant.match(rawdata, k) ...
RECURSIVE AttrsLoop(_, _, _)
AttrsLoop(t, k, endpos) ==
    IF k < endpos /\ AttrStarts(t, k)
    THEN AttrsLoop(t, AttrEnd(t, k), endpos)
    ELSE k

\* The end of locatestarttagend_tolerant matched at i: the name, [\s/]*,
\* the attributes, \s*.
LocateStartTagEnd(t, i) ==
    Skip(t, AttrsLoop(t, Skip(t, SkipNot(t, i + 2, NameEnd),
                              WhiteSpace \cup {47}),
                      Len(t) + 1),
         WhiteSpace)

\* What check_for_whole_start_tag makes of the end j of that match.
WholeStartTag(t, i, j) ==
    IF At(t, j) = 62 THEN j + 1
    ELSE IF At(t, j) = 47 THEN (IF At(t, j + 1) = 62 THEN j + 2 ELSE 0)
    ELSE IF At(t, j) = -1 THEN 0
    ELSE IF At(t, j) \in Letters \cup {61} THEN 0
    ELSE IF j > i THEN j
    ELSE i + 1

\* HTMLParser.check_for_whole_start_tag: the position after the start tag
\* that opens at i, or 0 when the tag is not complete.
check_for_whole_start_tag(t, i) == WholeStartTag(t, i, LocateStartTagEnd(t, i))

\* endtagfind, </\s*([a-zA-Z][-.a-zA-Z0-9:_]*)\s*>, tried at i: the first
\* and last position of the name, first = 0 when it does not match.
EndTagFind(t, i) ==
    LET a == Skip(t, i + 2, WhiteSpace)
        b == Skip(t, a + 1, Alnum \cup {45, 46, 58, 95})
    IN  IF At(t, a) \in Letters /\ At(t, Skip(t, b, WhiteSpace)) = 62
        THEN [first |-> a, last |-> b - 1]
        ELSE [first |-> 0, last |-> 0]

\* Where the match of ]\s*> (brackets = 1) or ]\s*]\s*> (brackets = 2)
\* that starts at p ends, or 0 when there is none.
SectionCloseEnd(t, p, brackets) ==
    LET q1 == Skip(t, p + 1, WhiteSpace)
        q == IF brackets = 1 THEN q1
             ELSE IF At(t, q1) = 93 THEN Skip(t, q1 + 1, WhiteSpace)
             ELSE 0
    IN  IF At(t, p) = 93 /\ q # 0 /\ At(t, q) = 62 THEN q ELSE 0

SectionClose(t, start, brackets) ==
    [start |-> start, end |-> SectionCloseEnd(t, start, brackets)]

\* The first such match at or after p: where it starts and ends, start = 0
\* when there is none.
FindSectionClose(t, p, brackets) ==
    SectionClose(t,
        First({q \in p..Len(t) : SectionCloseEnd(t, q, brackets) # 0}),
        brackets)

\* Where the match of --\s*> that starts at p ends, or 0.
CommentCloseEnd(t, p) ==
    IF /\ At(t, p) = 45 /\ At(t, p + 1) = 45
       /\ At(t, Skip(t, p + 2, WhiteSpace)) = 62
    THEN Skip(t, p + 2, WhiteSpace)
    ELSE 0

CommentClose(t, start) == [start |-> start, end |-> CommentCloseEnd(t, start)]

\* The first match of --\s*> at or after p, start = 0 when there is none.
FindCommentClose(t, p) ==
    CommentClose(t, First({q \in p..Len(t) : CommentCloseEnd(t, q) # 0}))

\* The first match of </\s*elem\s*>, whatever the case, at or after p: where
\* it starts, or 0.  It is what set_cdata_mode makes the parser look for.
CdataCloseAt(t, p, elem) ==
    /\ t[p] = 60 /\ At(t, p + 1) = 47
    /\ StartsWithIgnoringCase(t, Skip(t, p + 2, WhiteSpace), elem)
    /\ At(t, Skip(t, Skip(t, p + 2, WhiteSpace) + Len(elem), WhiteSpace)) = 62

FindCdataClose(t, p, elem) ==
    First({q \in p..Len(t) : CdataCloseAt(t, q, elem)})

\* charref, &#(?:[0-9]+|[xX][0-9a-fA-F]+)[^0-9a-fA-F], tried at i: the
\* first and last digit and the base, first = 0 when it does not match.
CharRef(t, i) ==
    LET d == Skip(t, i + 2, Digits)
        h == Skip(t, i + 3, HexDigits)
    IN  IF At(t, i + 2) \in Digits /\ At(t, d) # -1 /\ At(t, d) \notin HexDigits
        THEN [first |-> i + 2, last |-> d - 1, base |-> 10]
        ELSE IF At(t, i + 2) \in {88, 120} /\ h > i + 3 /\ At(t, h) # -1
        THEN [first |-> i + 3, last |-> h - 1, base |-> 16]
        ELSE [first |-> 0, last |-> 0, base |-> 0]

\* entityref, &([a-zA-Z][-.a-zA-Z0-9]*)[^a-zA-Z0-9], tried at i: the last
\* position of the name, or 0 when it does not match.  A name that runs to
\* the end of the text is cut before its last "-" or ".".
EntityRef(t, i) ==
    LET b == Skip(t, i + 2, Alnum \cup {45, 46})
        marks == {p \in (i + 2)..Len(t) : t[p] \in {45, 46}}
    IN  IF At(t, i + 1) \notin Letters THEN 0
        ELSE IF b <= Len(t) THEN b - 1
        ELSE IF marks = {} THEN 0
        ELSE (CHOOSE p \in marks : \A m \in marks : p >= m) - 1

\* ---- the tree builder ----
\*
\* The state of a parse is [i, cdata_elem, tagStack,
\* already_closed_empty_element, current_data, text, raised, error]: the position
\* in the markup, the element whose content is read as character data
\* (<< >> when none), the names of the open tags, the empty-element tags
\* closed on opening, the text since the last event, the text get_text()
\* will return, whether the parser raised and the exception it raised.

NewParse ==
    [i |-> 1, cdata_elem |-> << >>, tagStack |-> << >>,
     already_closed_empty_element |-> << >>, current_data |-> << >>,
     text |-> << >>, raised |-> FALSE, error |-> "none"]

\* BeautifulSoup.endData on a string of white space: one blank or newline,
\* unless a pre or textarea is open.
Collapse(tagStack, s) ==
    IF \E k \in 1..Len(tagStack) : tagStack[k] \in PreserveWhitespaceTags
    THEN s
    ELSE IF \A k \in 1..Len(s) : s[k] \in AsciiSpaces
    THEN (IF \E k \in 1..Len(s) : s[k] = 10 THEN <<10>> ELSE <<32>>)
    ELSE s

\* BeautifulSoup.endData: the text gathered so far becomes a string of the
\* tree; inside a string container it is of a class get_text() skips.
endData(st) ==
    IF st.current_data = << >> THEN st
    ELSE IF \E k \in 1..Len(st.tagStack) : st.tagStack[k] \in StringContainers
    THEN [st EXCEPT !.current_data = << >>]
    ELSE [st EXCEPT !.current_data = << >>,
                    !.text = @ \o Collapse(st.tagStack, st.current_data)]

handle_data(st, data) == [st EXCEPT !.current_data = @ \o data]

\* BeautifulSoup._popToTag: the open tags down to and with the last one of
\* that name are closed; nothing when no such tag is open.
popToTag(tagStack, name) ==
    IF \E k \in 1..Len(tagStack) : tagStack[k] = name
    THEN SubSeq(tagStack, 1,
                (CHOOSE k \in 1..Len(tagStack) :
                    /\ tagStack[k] = name
                    /\ \A m \in (k + 1)..Len(tagStack) : tagStack[m] # name) - 1)
    ELSE tagStack

\* list.remove
RemoveFirst(s, x) ==
    LET k == CHOOSE k \in 1..Len(s) : s[k] = x /\ \A m \in 1..(k - 1) : s[m] # x
    IN  SubSeq(s, 1, k - 1) \o SubSeq(s, k + 1, Len(s))

\* BeautifulSoupHTMLParser.handle_endtag
handle_endtag(st, name, check_already_closed) ==
    IF /\ check_already_closed
       /\ \E k \in 1..Len(st.already_closed_empty_element) :
             st.already_closed_empty_element[k] = name
    THEN [st EXCEPT !.already_closed_empty_element = RemoveFirst(@, name)]
    ELSE [endData(st) EXCEPT !.tagStack = popToTag(@, name)]

\* BeautifulSoupHTMLParser.handle_starttag
handle_starttag(st, name, handle_empty_element) ==
    LET pushed == [endData(st) EXCEPT !.tagStack = Append(@, name)] IN
    IF name \in EmptyElementTags /\ handle_empty_element
    THEN [handle_endtag(pushed, name, FALSE)
             EXCEPT !.already_closed_empty_element = Append(@, name)]
    ELSE pushed

\* BeautifulSoupHTMLParser.handle_startendtag
handle_startendtag(st, name) ==
    handle_endtag(handle_starttag(st, name, FALSE), name, TRUE)

\* handle_comment, handle_decl and handle_pi: the text before is ended and
\* the object made is none get_text() returns.
handle_comment(st) == endData(st)

\* BeautifulSoupHTMLParser.unknown_decl: a CDATA section is text of the
\* tree, another marked section is a declaration.
unknown_decl(st, data) ==
    IF StartsWith(UpperPoints(Slice(data, 1, 6)), 1, <<67,68,65,84,65,91>>)
    THEN [endData(st) EXCEPT
             !.text = @ \o Collapse(st.tagStack, SubSeq(data, 7, Len(data)))]
    ELSE endData(st)

\* The digits without the leading zeros.
Significant(digits) == SubSeq(digits, Skip(digits, 1, {48}), Len(digits))

\* The value of a few digits, capped just above the last code point.
RECURSIVE DigitsValue(_, _, _)
DigitsValue(digits, base, value) ==
    IF digits = << >> THEN value
    ELSE LET c == digits[1]
             d == IF c \in Digits THEN c - 48
                  ELSE IF c >= 97 THEN c - 87 ELSE c - 55
             v == value * base + d
         IN  DigitsValue(Tail(digits), base,
                         IF v > MaxCodePoint THEN MaxCodePoint + 1 ELSE v)

\* int(digits, base) as [raised, value]: a decimal string of more than
\* MaxStrDigits digits raises ValueError.  The value is capped just above
\* the last code point, where every number of more than 7 digits lies.
ParseInt(digits, base) ==
    [raised |-> base = 10 /\ Len(digits) > MaxStrDigits,
     value |-> IF Len(Significant(digits)) > 7 THEN MaxCodePoint + 1
               ELSE DigitsValue(Significant(digits), base, 0)]

\* BeautifulSoupHTMLParser.handle_charref: a number below 256 is read as a
\* windows-1252 byte when that encoding defines it; a number that is no
\* code point becomes U+FFFD.  Nothing catches the ValueError of int().
handle_charref(st, digits, base) ==
    LET n == ParseInt(digits, base) IN
    IF n.raised
    THEN [st EXCEPT !.raised = TRUE, !.error = "ValueError"]
    ELSE handle_data(st,
             IF \E e \in Windows1252 : e[1] = n.value
             THEN << (CHOOSE e \in Windows1252 : e[1] = n.value)[2] >>
             ELSE IF n.value > MaxCodePoint THEN <<65533>>
             ELSE << n.value >>)

\* BeautifulSoupHTMLParser.handle_entityref: the characters of a known
\* name, "&" and the name otherwise.
handle_entityref(st, name) ==
    LET known == IF \A k \in 1..Len(name) : name[k] \in Alnum
                 THEN {e \in HtmlEntities : e[1] = NameString(name)}
                 ELSE {}
    IN  handle_data(st, IF known = {} THEN <<38>> \o name
                        ELSE (CHOOSE e \in known : TRUE)[2])

\* ---- HTMLParser ----
\*
\* The outcome of parsing the construct that opens at a "<": "parsed" with
\* the state after it, "incomplete" when its end is missing, "last" when the
\* "<" is the last character, "rejected" when the parser raises
\* AssertionError, "raised" when it raises another exception, which the
\* state names.

Outcome(status, st) == [status |-> status, st |-> st]

\* HTMLParser.parse_starttag once the tag is known to end before endpos,
\* tag being its name and end what is left of it after name and attributes.
\* A tag whose end is neither ">" nor "/>" is handed on as text.
StartTag(t, st, i, endpos, tag, end) ==
    IF end = <<62>>
    THEN [handle_starttag(st, tag, TRUE) EXCEPT
             !.i = endpos,
             !.cdata_elem = IF tag \in CdataContentElements THEN tag ELSE << >>]
    ELSE IF end = <<47, 62>>
    THEN [handle_startendtag(st, tag) EXCEPT !.i = endpos]
    ELSE [handle_data(st, SubSeq(t, i, endpos - 1)) EXCEPT !.i = endpos]

\* Whether html.unescape raises on the value of the attribute whose name
\* ends before r: the value, without its quotes, holds "&#" and a decimal
\* number of more than MaxStrDigits digits.  The value is found as ValueEnd
\* finds its end.
ValueRaises(t, r) ==
    LET a == Skip(t, r, WhiteSpace)
        b == Skip(t, a, {61})
        c == Skip(t, b, WhiteSpace)
        closing == Find(t, At(t, c), c + 1)
        quoted == At(t, c) \in {34, 39}
        first == IF quoted THEN (IF closing # 0 THEN c + 1 ELSE b - 1) ELSE c
        last == IF quoted /\ closing # 0 THEN closing - 1
                ELSE SkipNot(t, first, WhiteSpace \cup {62}) - 1
    IN  /\ b # a
        /\ quoted /\ closing = 0 => c = b /\ b - a >= 2
        /\ \E p \in first..(last - 1) :
              /\ t[p] = 38 /\ t[p + 1] = 35
              /\ Skip(t, p + 2, Digits) - (p + 2) > MaxStrDigits

\* Whether html.unescape raises on one of the attributes from k on.
RECURSIVE AttrsRaise(_, _, _)
AttrsRaise(t, k, endpos) ==
    /\ k < endpos /\ AttrStarts(t, k)
    /\ \/ ValueRaises(t, SkipNot(t, k + 1, WhiteSpace \cup {47, 61, 62}))
       \/ AttrsRaise(t, AttrEnd(t, k), endpos)

\* The start tag that opens at i and ends before endpos (0 when incomplete).
WholeTag(t, st, i, endpos) ==
    IF endpos = 0 THEN Outcome("incomplete", st)
    ELSE IF AttrsRaise(t, SkipBlanksAndSlashes(t, SkipNot(t, i + 2, NameEnd)),
                       endpos)
    THEN Outcome("raised", [st EXCEPT !.raised = TRUE, !.error = "ValueError"])
    ELSE Outcome("parsed",
             StartTag(t, st, i, endpos,
                 LowerPoints(SubSeq(t, i + 1, SkipNot(t, i + 2, NameEnd) - 1)),
                 Strip(SubSeq(t,
                     AttrsLoop(t,
                         SkipBlanksAndSlashes(t, SkipNot(t, i + 2, NameEnd)),
                         endpos),
                     endpos - 1))))

\* HTMLParser.parse_starttag
parse_starttag(t, st, i) ==
    WholeTag(t, st, i, check_for_whole_start_tag(t, i))

\* HTMLParser.parse_endtag.  Inside script or style content an end tag
\* that endtagfind does not match, or that names another element, is
\* handed on as text and the content goes on.
parse_endtag(t, st, i) ==
    LET gtpos == Find(t, 62, i + 1)
        match == EndTagFind(t, i)
        name == SkipNot(t, i + 3, NameEnd)
        elem == LowerPoints(SubSeq(t, match.first, match.last))
    IN  IF gtpos = 0 THEN Outcome("incomplete", st)
        ELSE IF match.first = 0
        THEN IF st.cdata_elem # << >>
             THEN Outcome("parsed",
                      [handle_data(st, SubSeq(t, i, gtpos)) EXCEPT !.i = gtpos + 1])
             ELSE IF At(t, i + 2) \in Letters
             THEN Outcome("parsed",
                      [handle_endtag(st, LowerPoints(SubSeq(t, i + 2, name - 1)), TRUE)
                          EXCEPT !.i = Find(t, 62, SkipBlanksAndSlashes(t, name)) + 1])
             ELSE IF At(t, i + 2) = 62
             THEN Outcome("parsed", [st EXCEPT !.i = i + 3])
             ELSE Outcome("parsed", [handle_comment(st) EXCEPT !.i = gtpos + 1])
        ELSE IF st.cdata_elem # << >> /\ elem # st.cdata_elem
        THEN Outcome("parsed",
                 [handle_data(st, SubSeq(t, i, gtpos)) EXCEPT !.i = gtpos + 1])
        ELSE Outcome("parsed",
                 [handle_endtag(st, elem, TRUE)
                     EXCEPT !.i = gtpos + 1, !.cdata_elem = << >>])

\* ParserBase.parse_marked_section with _scan_name: "<![" and a name.  A
\* name that does not start with a letter or is no known keyword makes the
\* parser raise.
parse_marked_section(t, st, i) ==
    LET b == Skip(t, i + 4, Alnum \cup {45, 46, 95})
        sectName == LowerPoints(SubSeq(t, i + 3, b - 1))
        match == FindSectionClose(t, i + 3,
                     IF sectName \in StandardSections THEN 2 ELSE 1)
    IN  IF i + 2 = Len(t) THEN Outcome("incomplete", st)
        ELSE IF At(t, i + 3) \notin Letters THEN Outcome("rejected", st)
        ELSE IF Skip(t, b, WhiteSpace) > Len(t) THEN Outcome("incomplete", st)
        ELSE IF sectName \notin StandardSections \cup OfficeSections
        THEN Outcome("rejected", st)
        ELSE IF match.start = 0 THEN Outcome("incomplete", st)
        ELSE Outcome("parsed",
                 [unknown_decl(st, SubSeq(t, i + 3, match.start - 1))
                     EXCEPT !.i = match.end + 1])

\* HTMLParser.parse_html_declaration for what is no comment: a marked
\* section, a doctype, or a bogus comment up to the next ">".
parse_html_declaration(t, st, i) ==
    LET gtpos == Find(t, 62, IF LowerPoints(Slice(t, i, i + 8)) = <<60,33,100,111,99,116,121,112,101>>
                             THEN i + 9 ELSE i + 2)
    IN  IF At(t, i + 2) = 91 THEN parse_marked_section(t, st, i)
        ELSE IF gtpos = 0 THEN Outcome("incomplete", st)
        ELSE Outcome("parsed", [handle_comment(st) EXCEPT !.i = gtpos + 1])

\* The branch of goahead at a "<": a start tag, an end tag, a comment, a
\* processing instruction, a declaration, or a "<" that is text.
ParseMarkup(t, st, i) ==
    LET c == At(t, i + 1)
        comment == FindCommentClose(t, i + 4)
        piclose == Find(t, 62, i + 2)
    IN  IF c \in Letters THEN parse_starttag(t, st, i)
        ELSE IF c = 47 THEN parse_endtag(t, st, i)
        ELSE IF StartsWith(t, i, <<60,33,45,45>>)
        THEN IF comment.start = 0 THEN Outcome("incomplete", st)
             ELSE Outcome("parsed", [handle_comment(st) EXCEPT !.i = comment.end + 1])
        ELSE IF c = 63
        THEN IF piclose = 0 THEN Outcome("incomplete", st)
             ELSE Outcome("parsed", [handle_comment(st) EXCEPT !.i = piclose + 1])
        ELSE IF c = 33 THEN parse_html_declaration(t, st, i)
        ELSE IF i + 1 <= Len(t)
        THEN Outcome("parsed", [handle_data(st, <<60>>) EXCEPT !.i = i + 1])
        ELSE Outcome("last", st)

\* The branch of goahead at the "<" at j, markup being what was parsed
\* there.  With end set, an incomplete construct is handed on as text up to
\* the next ">" or, without one, up to the next "<".  [st, again]: the
\* state after it and whether the loop goes on.
AfterMarkup(t, s, j, end, markup) ==
    LET gt == Find(t, 62, j + 1)
        lt == Find(t, 60, j + 1)
        k == IF gt # 0 THEN gt + 1 ELSE IF lt # 0 THEN lt ELSE j + 1
    IN  IF markup.status = "parsed" THEN [st |-> markup.st, again |-> TRUE]
        ELSE IF markup.status = "raised" THEN [st |-> markup.st, again |-> FALSE]
        ELSE IF markup.status = "rejected"
        THEN [st |-> [s EXCEPT !.raised = TRUE, !.error = "AssertionError"],
              again |-> FALSE]
        ELSE IF markup.status = "incomplete" /\ end
        THEN [st |-> [handle_data(s, SubSeq(t, j, k - 1)) EXCEPT !.i = k],
              again |-> TRUE]
        ELSE [st |-> s, again |-> FALSE]

\* The state after a handler was called and whether the loop goes on: the
\* position moves to i unless the handler raised.
Handled(st, i) ==
    [st |-> IF st.raised THEN st ELSE [st EXCEPT !.i = i], again |-> ~st.raised]

\* The branch of goahead at the "&" at j.
AfterAmpersand(t, s, j, end, charref, entityref) ==
    IF At(t, j + 1) = 35
    THEN IF charref.first # 0
         THEN Handled(handle_charref(s, SubSeq(t, charref.first, charref.last),
                                     charref.base),
                      IF At(t, charref.last + 1) = 59
                      THEN charref.last + 2 ELSE charref.last + 1)
         ELSE IF Find(t, 59, j) # 0
         THEN [st |-> [handle_data(s, <<38, 35>>) EXCEPT !.i = j + 2],
               again |-> FALSE]
         ELSE [st |-> s, again |-> FALSE]
    ELSE IF entityref # 0
    THEN Handled(handle_entityref(s, SubSeq(t, j + 1, entityref)),
                 IF At(t, entityref + 1) = 59
                 THEN entityref + 2 ELSE entityref + 1)
    ELSE IF At(t, j + 1) \in Letters
    THEN [st |-> IF end /\ j + 1 = Len(t) THEN [s EXCEPT !.i = j + 1] ELSE s,
          again |-> FALSE]
    ELSE IF j + 1 <= Len(t)
    THEN [st |-> [handle_data(s, <<38>>) EXCEPT !.i = j + 1], again |-> TRUE]
    ELSE [st |-> s, again |-> FALSE]

\* One turn of the loop of goahead once the next "<" or "&", or in script
\* and style content the closing tag, is found at j (0 when that closing
\* tag is missing): the text before j is handed on.
Turn(t, st, j, end) ==
    IF j = 0 THEN [st |-> st, again |-> FALSE]
    ELSE IF j > Len(t)
    THEN [st |-> [handle_data(st, SubSeq(t, st.i, j - 1)) EXCEPT !.i = j],
          again |-> FALSE]
    ELSE IF t[j] = 60
    THEN AfterMarkup(t, [handle_data(st, SubSeq(t, st.i, j - 1)) EXCEPT !.i = j],
             j, end,
             ParseMarkup(t, [handle_data(st, SubSeq(t, st.i, j - 1))
                                EXCEPT !.i = j], j))
    ELSE AfterAmpersand(t, [handle_data(st, SubSeq(t, st.i, j - 1))
                               EXCEPT !.i = j],
             j, end, CharRef(t, j), EntityRef(t, j))

\* One turn of the loop of HTMLParser.goahead.
GoaheadStep(t, st, end) ==
    Turn(t, st,
         IF st.cdata_elem # << >>
         THEN FindCdataClose(t, st.i, st.cdata_elem)
         ELSE SkipNot(t, st.i, {38, 60}),
         end)

\* while i < n: ..., as the loop and what follows a turn of it.
RECURSIVE GoaheadLoop(_, _, _)
Again(t, turn, end) ==
    IF turn.again THEN GoaheadLoop(t, turn.st, end) ELSE turn.st

GoaheadLoop(t, st, end) ==
    IF st.i > Len(t) \/ st.raised THEN st
    ELSE Again(t, GoaheadStep(t, st, end), end)

\* The end of goahead: at the end of the input the text left over is
\* handed on, unless the parser is inside script or style content.
Leftover(t, s, end) ==
    IF end /\ ~s.raised /\ s.i <= Len(t) /\ s.cdata_elem = << >>
    THEN [handle_data(s, SubSeq(t, s.i, Len(t))) EXCEPT !.i = Len(t) + 1]
    ELSE s

\* HTMLParser.goahead
goahead(t, st, end) == Leftover(t, GoaheadLoop(t, st, end), end)

\* HTMLParser.feed
feed(html) == goahead(html, NewParse, FALSE)

\* HTMLParser.close, unless feed raised
close(html, fed) == IF fed.raised THEN fed ELSE goahead(html, fed, TRUE)

\* [raised, error, text] of a finished parse: BeautifulSoup turns an
\* AssertionError of the parser into ParserRejectedMarkup and lets any
\* other exception through, and get_text() joins the strings of the tree.
SoupText(parsed) ==
    IF parsed.raised
    THEN [raised |-> TRUE,
          error |-> IF parsed.error = "AssertionError"
                    THEN "bs4.ParserRejectedMarkup" ELSE parsed.error,
          text |-> << >>]
    ELSE [raised |-> FALSE, error |-> "none", text |-> endData(parsed).text]

\* BeautifulSoup(html, "html.parser").get_text()
get_text(html) == SoupText(close(html, feed(html)))

(***************************************************************************)
(* extract_body_from_payload                                               *)
(*                                                                         *)
(* A part is [mimeType, has_data, data, parts]: has_data tells whether     *)
(* body.data is there at all, data is its value (<< >> when absent).       *)
(***************************************************************************)

\* "\n\n"
Separator == <<10, 10>>

\* "(No readable body found)"
NoReadableBody ==
    <<40,78,111,32,114,101,97,100,97,98,108,101,32,98,111,100,121,32,
      102,111,117,110,100,41>>

\* part.get("body", {}).get("data") tested by "if data:": absent and empty
\* are both false.
Truthy(part) == part.has_data /\ part.data # << >>

RECURSIVE Join(_, _)
Join(sep, texts) ==
    IF texts = << >> THEN << >>
    ELSE IF Len(texts) = 1 THEN texts[1]
    ELSE texts[1] \o sep \o Join(sep, Tail(texts))

\* The body of both loops: decode the part's data into the bucket of its
\* mimeType.  acc = [text_parts, html_parts, raised]; an exception of
\* _decode_part leaves the loops at once.
CollectPart(acc, part) ==
    IF acc.raised \/ ~Truthy(part) THEN acc
    ELSE IF part.mimeType = "text/plain"
    THEN LET d == _decode_part(part.data) IN
         IF d.raised THEN [acc EXCEPT !.raised = TRUE]
         ELSE [acc EXCEPT !.text_parts = Append(acc.text_parts, d.text)]
    ELSE IF part.mimeType = "text/html"
    THEN LET d == _decode_part(part.data) IN
         IF d.raised THEN [acc EXCEPT !.raised = TRUE]
         ELSE [acc EXCEPT !.html_parts = Append(acc.html_parts, d.text)]
    ELSE acc

\* As SubLoop, but each sub-part's own parts are collected as well.
RECURSIVE SubLoopDeep(_, _, _)
SubLoopDeep(acc, subs, j) ==
    IF acc.raised \/ j > Len(subs) THEN acc
    ELSE SubLoopDeep(SubLoopDeep(CollectPart(acc, subs[j]), subs[j].parts, 1),
                     subs, j + 1)

\* for sub in part.get("parts", []) or []
RECURSIVE SubLoop(_, _, _)
SubLoop(acc, subs, j) ==
    IF acc.raised \/ j > Len(subs) THEN acc
    ELSE SubLoop(CollectPart(acc, subs[j]), subs, j + 1)

\* As PartLoop, but every part of the level is collected before any sub-part.
RECURSIVE LevelLoop(_, _, _)
LevelLoop(acc, parts, i) ==
    IF acc.raised \/ i > Len(parts) THEN acc
    ELSE LevelLoop(CollectPart(acc, parts[i]), parts, i + 1)

RECURSIVE SubLevelLoop(_, _, _)
SubLevelLoop(acc, parts, i) ==
    IF acc.raised \/ i > Len(parts) THEN acc
    ELSE SubLevelLoop(SubLoop(acc, parts[i].parts, 1), parts, i + 1)

PartLoopBreadthFirst(acc, parts, i) ==
    SubLevelLoop(LevelLoop(acc, parts, i), parts, i)

\* for part in parts: the part itself, then its sub-parts, then the next part
RECURSIVE PartLoop(_, _, _)
PartLoop(acc, parts, i) ==
    IF acc.raised \/ i > Len(parts) THEN acc
    ELSE PartLoop(SubLoop(CollectPart(acc, parts[i]), parts[i].parts, 1),
                  parts, i + 1)

\* The buckets when the loops are left.
CollectParts(payload) ==
    PartLoop([text_parts |-> << >>, html_parts |-> << >>, raised |-> FALSE],
             payload.parts, 1)

\* The exception a failed call ends with.
ErrorOf(raised, name) == IF raised THEN name ELSE "none"

\* The selection once the loops are over, [raised, error, text]: only the
\* parsing of the first text/html part can raise here.
SelectBody(acc) ==
    IF acc.text_parts # << >>
    THEN [raised |-> FALSE, error |-> "none",
          text |-> Join(Separator, acc.text_parts)]
    ELSE IF acc.html_parts # << >>
    THEN get_text(acc.html_parts[1])
    ELSE [raised |-> FALSE, error |-> "none", text |-> NoReadableBody]

\* The outcome selected of a call together with the buckets acc it left.
WithBuckets(acc, selected) ==
    [raised |-> selected.raised, error |-> selected.error,
     text |-> selected.text,
     text_parts |-> acc.text_parts, html_parts |-> acc.html_parts]

\* The outcome of the loops followed by the selection.
CollectAndSelect(payload) ==
    LET acc == CollectParts(payload) IN
    WithBuckets(acc,
        IF acc.raised
        THEN [raised |-> TRUE, error |-> "binascii.Error", text |-> << >>]
        ELSE SelectBody(acc))

\* The outcome of the direct data of the payload.
DecodeDirect(payload) ==
    LET d == _decode_part(payload.data) IN
    [raised |-> d.raised, error |-> ErrorOf(d.raised, "binascii.Error"),
     text |-> d.text, text_parts |-> << >>, html_parts |-> << >>]

\* As extract_body_from_payload, but the parts, when there are any, come
\* before the direct data.
ExtractPartsFirst(payload) ==
    IF payload.parts = << >> /\ Truthy(payload)
    THEN DecodeDirect(payload)
    ELSE CollectAndSelect(payload)

\* [raised, error, text, text_parts, html_parts]: the outcome of the call
\* and the two buckets as the call left them.
extract_body_from_payload(payload) ==
    IF Truthy(payload) THEN DecodeDirect(payload)
    ELSE CollectAndSelect(payload)

(***************************************************************************)
(* fetch_unread_emails: the header lookup                                  *)
(*                                                                         *)
(* A header is [has_name, name, has_value, value]: name a sequence of      *)
(* characters, value a string nothing is computed from.                    *)
(***************************************************************************)

UpperCase ==
    << "A","B","C","D","E","F","G","H","I","J","K","L","M",
       "N","O","P","Q","R","S","T","U","V","W","X","Y","Z" >>

LowerCase ==
    << "a","b","c","d","e","f","g","h","i","j","k","l","m",
       "n","o","p","q","r","s","t","u","v","w","x","y","z" >>

LowerChar(c) ==
    IF \E k \in 1..26 : UpperCase[k] = c
    THEN LowerCase[CHOOSE k \in 1..26 : UpperCase[k] = c]
    ELSE c

\* str.lower() on ASCII names.
lower(name) == [k \in 1..Len(name) |-> LowerChar(name[k])]

NameSubject == << "s","u","b","j","e","c","t" >>
NameFrom == << "f","r","o","m" >>

NoSubject == "(No Subject)"
UnknownSender == "(Unknown Sender)"

\* As HeaderName, without lower().
HeaderNameExact(h) == IF h.has_name THEN h.name ELSE << >>

\* h.get("name", "").lower()
HeaderName(h) == IF h.has_name THEN lower(h.name) ELSE << >>

\* The body of the loop over the headers; acc = [subject, sender].
HeaderStep(acc, h) ==
    IF HeaderName(h) = NameSubject
    THEN [acc EXCEPT !.subject = IF h.has_value THEN h.value ELSE acc.subject]
    ELSE IF HeaderName(h) = NameFrom
    THEN [acc EXCEPT !.sender = IF h.has_value THEN h.value ELSE acc.sender]
    ELSE acc

RECURSIVE HeaderLoop(_, _, _)
HeaderLoop(acc, headers, k) ==
    IF k > Len(headers) THEN acc
    ELSE HeaderLoop(HeaderStep(acc, headers[k]), headers, k + 1)

LookupSubjectAndSender(headers) ==
    HeaderLoop([subject |-> NoSubject, sender |-> UnknownSender], headers, 1)

(***************************************************************************)
(* The inputs                                                              *)
(***************************************************************************)

\* Most characters of a payload handed to _decode_part alone.
MaxDataLen == 4

\* Most parts of a payload below its root, and the deepest level they sit at.
MaxNodes == 3
MaxDepth == 3

\* Most headers of a message whose headers are looked up alone.
MaxHeaders == 3

\* Largest max_results asked for, and most identifiers the mailbox lists.
MaxLimit == 5
MaxListed == 3

\* "a", "G", "k": alphabet characters ("aGk=" is "hi"); "w", "6": with "k",
\* a two-byte UTF-8 sequence ("w6k=" is U+00E9); "_": the url-safe 63;
\* "=": padding; "!": outside the alphabet.
DataChars == {"a", "G", "k", "w", "6", "_", "=", "!"}

RECURSIVE SeqsUpTo(_, _)
SeqsUpTo(S, n) ==
    IF n = 0 THEN {<< >>}
    ELSE LET shorter == SeqsUpTo(S, n - 1) IN
         shorter \cup {Append(q, x) : q \in {r \in shorter : Len(r) = n - 1}, x \in S}

DataInputs(n) == SeqsUpTo(DataChars, n)

DataHi == << "a","G","k","=" >>
DataYo == << "e","W","8","=" >>
DataHtmlX == << "P","H","A","-","e","A","=","=" >>
DataHtmlY == << "P","H","A","-","e","Q","=","=" >>
DataBadPadding == << "a","G","k" >>
DataHtmlBadPadding == << "P","H","A","-","e","A" >>

Part(mime, has, d, sub) ==
    [mimeType |-> mime, has_data |-> has, data |-> d, parts |-> sub]

\* What a part below the root may be, its sub-parts aside.
Kinds ==
    { Part("text/plain", TRUE, DataHi, << >>),
      Part("text/plain", TRUE, DataYo, << >>),
      Part("text/html", TRUE, DataHtmlX, << >>),
      Part("text/html", TRUE, DataHtmlY, << >>),
      Part("text/html", TRUE, DataHtmlBadPadding, << >>),
      Part("image/png", TRUE, DataHi, << >>),
      Part("multipart/alternative", FALSE, << >>, << >>) }

\* What the root may be, its parts aside.
RootKinds ==
    { Part("multipart/mixed", FALSE, << >>, << >>),
      Part("multipart/mixed", TRUE, << >>, << >>),
      Part("text/plain", TRUE, DataHi, << >>),
      Part("text/plain", TRUE, DataBadPadding, << >>) }

\* The sequences of parts that hold n parts in all, sub-parts counted, none
\* deeper than h levels.
RECURSIVE Forests(_, _)
Forests(n, h) ==
    IF n = 0 THEN {<< >>}
    ELSE IF h = 0 THEN {}
    ELSE UNION { { <<Part(k.mimeType, k.has_data, k.data, sub)>> \o rest :
                     k \in Kinds,
                     sub \in Forests(m - 1, h - 1),
                     rest \in Forests(n - m, h) } : m \in 1..n }

\* The payloads of at most n parts below the root.
Payloads(n) ==
    { Part(r.mimeType, r.has_data, r.data, f) :
        r \in RootKinds,
        f \in UNION { Forests(m, MaxDepth) : m \in 0..n } }

Header(name, value) ==
    [has_name |-> TRUE, name |-> name, has_value |-> TRUE, value |-> value]

HeaderKinds ==
    { Header(<< "S","u","b","j","e","c","t" >>, "Q3 Invoice"),
      Header(<< "S","U","B","J","E","C","T" >>, "Re: hello"),
      Header(<< "F","r","o","m" >>, "billing@acme.test"),
      Header(<< "f","R","O","M" >>, "bob@example.test"),
      Header(<< "T","o" >>, "me@example.test"),
      Header(<< "S","u","b","j","e","c","t","s" >>, "not a subject"),
      [has_name |-> TRUE, name |-> << "S","u","b","j","e","c","t" >>,
       has_value |-> FALSE, value |-> ""],
      [has_name |-> FALSE, name |-> << >>, has_value |-> TRUE, value |-> "anonymous"] }

HeaderLists(n) == SeqsUpTo(HeaderKinds, n)

EmptyPayload == Part("", FALSE, << >>, << >>)

Message(headers, payload, snippet) ==
    [headers |-> headers, payload |-> payload, snippet |-> snippet]

NoMessage == Message(<< >>, EmptyPayload, "")

\* What messages().get() may answer.
Messages ==
    { Message(<< Header(<< "S","u","b","j","e","c","t" >>, "Q3 Invoice"),
                 Header(<< "F","r","o","m" >>, "billing@acme.test") >>,
              Part("multipart/alternative", FALSE, << >>,
                   << Part("text/plain", TRUE, DataHi, << >>),
                      Part("text/html", TRUE, DataHtmlX, << >>) >>),
              "hi"),
      Message(<< >>,
              Part("text/html", FALSE, << >>,
                   << Part("text/html", TRUE, DataHtmlY, << >>) >>),
              "y"),
      Message(<< Header(<< "S","U","B","J","E","C","T" >>, "Re: hello") >>,
              Part("multipart/mixed", FALSE, << >>,
                   << Part("text/plain", TRUE, DataBadPadding, << >>) >>),
              "broken"),
      NoMessage }

Ids == {"m1", "m2", "m3", "m4"}

Min(a, b) == IF a < b THEN a ELSE b

\* The listings of at most n identifiers, none twice.
Listings(n) ==
    { q \in SeqsUpTo(Ids, n) : \A a, b \in 1..Len(q) : a # b => q[a] # q[b] }

(***************************************************************************)
(* The state                                                               *)
(***************************************************************************)

VARIABLES
    pc,           \* where the running call stands
    error,        \* the exception that ended it, or "none"
    data,         \* _decode_part: its argument
    decoded,      \* _decode_part: what it returned
    max_results,  \* fetch_unread_emails: its argument
    listing,      \* the unread identifiers the mailbox holds, in its order
    requests,     \* the requests the mailbox received, in order
    msgs,         \* resp.get("messages", [])
    i,            \* the place in msgs of the message at hand
    mdata,        \* the message at hand
    subject,
    sender,
    text_parts,   \* the buckets as extract_body_from_payload left them
    html_parts,
    body,
    results

vars == << pc, error, data, decoded, max_results, listing, requests, msgs, i,
           mdata, subject, sender, text_parts, html_parts, body, results >>

decodeVars == << data, decoded >>
fetchVars == << max_results, listing, requests, msgs, i, results >>
headerVars == << subject, sender >>
extractVars == << text_parts, html_parts, body >>

\* Nothing called yet: every local at the value it has before its first
\* assignment (the defaults of lines 95-96 for subject and sender).
NoDecode == data = << >> /\ decoded = << >>

NoFetch ==
    /\ max_results = 0
    /\ listing = << >>
    /\ requests = << >>
    /\ msgs = << >>
    /\ i = 0
    /\ results = << >>

NoLookup == subject = NoSubject /\ sender = UnknownSender

NoExtract == text_parts = << >> /\ html_parts = << >> /\ body = << >>

(***************************************************************************)
(* _decode_part called alone                                               *)
(***************************************************************************)

InitDecode ==
    /\ pc = "decode"
    /\ error = "none"
    /\ data \in DataInputs(MaxDataLen)
    /\ decoded = << >>
    /\ mdata = NoMessage
    /\ NoFetch /\ NoLookup /\ NoExtract

DecodePart ==
    /\ pc = "decode"
    /\ LET d == _decode_part(data) IN
         /\ decoded' = d.text
         /\ pc' = IF d.raised THEN "raised" ELSE "decoded"
         /\ error' = IF d.raised THEN "binascii.Error" ELSE "none"
    /\ UNCHANGED << data, mdata, fetchVars, headerVars, extractVars >>

NextDecode == DecodePart

SpecDecode == InitDecode /\ [][NextDecode]_vars

(***************************************************************************)
(* fetch_unread_emails                                                     *)
(***************************************************************************)

\* Lines 94-103: the defaults, then the loop over the headers.
LookupHeaders ==
    /\ pc = "fetched"
    /\ LET r == LookupSubjectAndSender(mdata.headers) IN
         /\ subject' = r.subject
         /\ sender' = r.sender
    /\ pc' = "looked_up"
    /\ UNCHANGED << error, mdata, decodeVars, fetchVars, extractVars >>

\* Line 105: body = extract_body_from_payload(payload).  An exception of
\* _decode_part or of BeautifulSoup is caught nowhere and ends
\* fetch_unread_emails: nothing is assigned then, and body keeps the text
\* of the message before.
ExtractBody ==
    /\ pc = "looked_up"
    /\ LET r == extract_body_from_payload(mdata.payload) IN
         /\ body' = IF r.raised THEN body ELSE r.text
         /\ text_parts' = r.text_parts
         /\ html_parts' = r.html_parts
         /\ pc' = IF r.raised THEN "raised" ELSE "extracted"
         /\ error' = r.error
    /\ UNCHANGED << mdata, decodeVars, fetchVars, headerVars >>

\* As AppendRecord, but the record is put in front.
AppendRecordInFront ==
    /\ pc = "extracted"
    /\ i >= 1 /\ i <= Len(msgs)
    /\ results' = << [id |-> msgs[i], subject |-> subject, sender |-> sender,
                      body |-> body, snippet |-> mdata.snippet] >> \o results
    /\ i' = i + 1
    /\ pc' = "loop"
    /\ UNCHANGED << error, mdata, decodeVars, max_results, listing, requests,
                    msgs, headerVars, extractVars >>

\* Lines 106-114: the record of the message at hand, appended.
AppendRecord ==
    /\ pc = "extracted"
    /\ i >= 1 /\ i <= Len(msgs)
    /\ results' = Append(results,
                         [id |-> msgs[i], subject |-> subject, sender |-> sender,
                          body |-> body, snippet |-> mdata.snippet])
    /\ i' = i + 1
    /\ pc' = "loop"
    /\ UNCHANGED << error, mdata, decodeVars, max_results, listing, requests,
                    msgs, headerVars, extractVars >>

\* Lines 86-88: messages().list(maxResults=max_results).execute().  The
\* mailbox answers with its listing (no "messages" key when it is empty) or
\* the request fails, and the exception ends the call.
ListUnread ==
    /\ pc = "start"
    /\ \E ok \in BOOLEAN :
         /\ requests' = Append(requests, [op |-> "list", arg |-> "UNREAD", ok |-> ok])
         /\ IF ok
            THEN /\ msgs' = listing
                 /\ i' = 1
                 /\ pc' = "loop"
                 /\ error' = "none"
            ELSE /\ pc' = "raised"
                 /\ error' = "HttpError"
                 /\ UNCHANGED << msgs, i >>
    /\ UNCHANGED << mdata, decodeVars, max_results, listing, results,
                    headerVars, extractVars >>

\* As GetMessage, but a failed request is skipped and the loop goes on.
GetMessageSwallowFailure ==
    /\ pc = "loop"
    /\ i >= 1 /\ i <= Len(msgs)
    /\ \E ok \in BOOLEAN :
         /\ requests' = Append(requests, [op |-> "get", arg |-> msgs[i], ok |-> ok])
         /\ IF ok
            THEN /\ \E answer \in Messages : mdata' = answer
                 /\ pc' = "fetched"
                 /\ i' = i
            ELSE /\ i' = i + 1
                 /\ UNCHANGED << pc, mdata >>
    /\ UNCHANGED << error, decodeVars, max_results, listing, msgs, results,
                    headerVars, extractVars >>

\* As GetMessage, but msgs is walked from its end.
GetMessageReversed ==
    /\ pc = "loop"
    /\ i >= 1 /\ i <= Len(msgs)
    /\ \E ok \in BOOLEAN :
         /\ requests' = Append(requests, [op |-> "get",
                                          arg |-> msgs[Len(msgs) + 1 - i], ok |-> ok])
         /\ IF ok
            THEN /\ \E answer \in Messages : mdata' = answer
                 /\ pc' = "fetched"
                 /\ error' = "none"
            ELSE /\ pc' = "raised"
                 /\ error' = "HttpError"
                 /\ UNCHANGED mdata
    /\ UNCHANGED << decodeVars, max_results, listing, msgs, i, results,
                    headerVars, extractVars >>

\* Lines 90-92: the next m of msgs; messages().get(id=m["id"]).execute().
\* The mailbox answers with a message or the request fails, and the
\* exception ends the call.
GetMessage ==
    /\ pc = "loop"
    /\ i >= 1 /\ i <= Len(msgs)
    /\ \E ok \in BOOLEAN :
         /\ requests' = Append(requests, [op |-> "get", arg |-> msgs[i], ok |-> ok])
         /\ IF ok
            THEN /\ \E answer \in Messages : mdata' = answer
                 /\ pc' = "fetched"
                 /\ error' = "none"
            ELSE /\ pc' = "raised"
                 /\ error' = "HttpError"
                 /\ UNCHANGED mdata
    /\ UNCHANGED << decodeVars, max_results, listing, msgs, i, results,
                    headerVars, extractVars >>

\* Line 116: return results.
Return ==
    /\ pc = "loop"
    /\ i > Len(msgs)
    /\ pc' = "done"
    /\ UNCHANGED << error, mdata, decodeVars, fetchVars, headerVars, extractVars >>

Init ==
    /\ pc = "start"
    /\ error = "none"
    /\ max_results \in 1..MaxLimit
    /\ listing \in Listings(Min(max_results, MaxListed))
    /\ requests = << >>
    /\ msgs = << >>
    /\ i = 0
    /\ results = << >>
    /\ mdata = NoMessage
    /\ NoDecode /\ NoLookup /\ NoExtract

Next ==
    \/ ListUnread
    \/ GetMessage
    \/ LookupHeaders
    \/ ExtractBody
    \/ AppendRecord
    \/ Return

Spec == Init /\ [][Next]_vars

(***************************************************************************)
(* The header lookup and extract_body_from_payload, each on the message of *)
(* one messages().get() answer                                             *)
(***************************************************************************)

InitHeaders ==
    /\ pc = "fetched"
    /\ error = "none"
    /\ mdata \in { Message(h, EmptyPayload, "") : h \in HeaderLists(MaxHeaders) }
    /\ NoDecode /\ NoFetch /\ NoLookup /\ NoExtract

NextHeaders == LookupHeaders

SpecHeaders == InitHeaders /\ [][NextHeaders]_vars

InitExtract ==
    /\ pc = "looked_up"
    /\ error = "none"
    /\ mdata \in { Message(<< >>, p, "") : p \in Payloads(MaxNodes) }
    /\ NoDecode /\ NoFetch /\ NoLookup /\ NoExtract

NextExtract == ExtractBody

SpecExtract == InitExtract /\ [][NextExtract]_vars

(***************************************************************************)
(* The properties: what they speak of                                      *)
(***************************************************************************)

Called == pc \in {"decoded", "raised"}

Extracted == pc \in {"extracted", "raised"}

root == mdata.payload

\* A payload in URL-safe base64 as RFC 4648 writes it: alphabet characters
\* in quads, the last quad closed by at most two "=".
UrlsafeChar(c) == IsB64Char(UrlsafeTranslate(c)) /\ c # "+" /\ c # "/"

WellFormed(s) ==
    /\ Len(s) % 4 = 0
    /\ \E pads \in 0..2 :
         /\ pads <= Len(s)
         /\ \A k \in 1..Len(s) :
              IF k > Len(s) - pads THEN s[k] = "=" ELSE UrlsafeChar(s[k])

RECURSIVE Flatten(_)
Flatten(seqs) ==
    IF seqs = << >> THEN << >> ELSE Head(seqs) \o Flatten(Tail(seqs))

\* The parts of the two levels below the root, each top-level part followed
\* at once by its own sub-parts.
DepthFirst(payload) ==
    Flatten([k \in 1..Len(payload.parts) |->
                <<payload.parts[k]>> \o payload.parts[k].parts])

\* The same parts, the whole top level before the whole second level.
BreadthFirst(payload) ==
    payload.parts
      \o Flatten([k \in 1..Len(payload.parts) |-> payload.parts[k].parts])

IsOfType(part, mime) == Truthy(part) /\ part.mimeType = mime

OfType(parts, mime) == SelectSeq(parts, LAMBDA q : IsOfType(q, mime))

\* The decoded texts of the parts of one type, in the order given; the text
\* of a part that does not decode is empty.
Texts(parts, mime) ==
    LET of == OfType(parts, mime)
    IN  [k \in 1..Len(of) |-> _decode_part(of[k].data).text]

IsPrefix(a, b) == Len(a) <= Len(b) /\ a = SubSeq(b, 1, Len(a))

\* Whether some part deeper than the second level carries text/plain or
\* text/html data.
RECURSIVE CarriesText(_)
CarriesText(parts) ==
    \E k \in 1..Len(parts) :
        \/ IsOfType(parts[k], "text/plain")
        \/ IsOfType(parts[k], "text/html")
        \/ CarriesText(parts[k].parts)

DeepText(payload) ==
    \E a \in 1..Len(payload.parts) :
        \E b \in 1..Len(payload.parts[a].parts) :
            CarriesText(payload.parts[a].parts[b].parts)

\* The payload without its parts deeper than the second level.
TwoLevels(payload) ==
    [payload EXCEPT !.parts =
        [a \in 1..Len(payload.parts) |->
            [payload.parts[a] EXCEPT !.parts =
                [b \in 1..Len(payload.parts[a].parts) |->
                    [payload.parts[a].parts[b] EXCEPT !.parts = << >>]]]]]

TextHi == <<104, 105>>
TextYo == <<121, 111>>

(***************************************************************************)
(* The properties of _decode_part (SpecDecode)                             *)
(***************************************************************************)

\* C1: _decode_part never raises: called with a non-empty payload that is
\* not well-formed URL-safe base64 (a character outside the alphabet, wrong
\* padding), it returns the empty string.
C1_MalformedDecodesToEmpty ==
    (Called /\ data # << >> /\ ~WellFormed(data))
        => (pc = "decoded" /\ decoded = << >>)

(***************************************************************************)
(* The properties of extract_body_from_payload (SpecExtract)               *)
(***************************************************************************)

\* C2, as claimed: without direct data on the root, each bucket holds the
\* decoded texts in breadth-first order, every matching top-level part
\* before every matching second-level part, and the joined body follows it.
C2_BucketsBreadthFirst ==
    (pc = "extracted" /\ ~Truthy(root))
        => /\ text_parts = Texts(BreadthFirst(root), "text/plain")
           /\ html_parts = Texts(BreadthFirst(root), "text/html")
           /\ (text_parts # << >>
                 => body = Join(Separator, Texts(BreadthFirst(root), "text/plain")))

\* C2, amended: without direct data on the root, each bucket holds the
\* decoded texts in depth-first order: a matching top-level part, then its
\* own matching sub-parts left to right, then the next top-level part.  A
\* call that raised left a prefix of that order; the joined body follows it.
C2_BucketsDepthFirst ==
    (Extracted /\ ~Truthy(root))
        => /\ IsPrefix(text_parts, Texts(DepthFirst(root), "text/plain"))
           /\ IsPrefix(html_parts, Texts(DepthFirst(root), "text/html"))
           /\ (pc = "extracted"
                 => /\ text_parts = Texts(DepthFirst(root), "text/plain")
                    /\ html_parts = Texts(DepthFirst(root), "text/html")
                    /\ (text_parts # << >>
                          => body = Join(Separator,
                                         Texts(DepthFirst(root), "text/plain"))))

\* A top-level part with a sub-part, then a second top-level part, all three
\* text/plain: the sub-part's text sits between the two.
C2_Witness ==
    /\ pc = "extracted"
    /\ ~Truthy(root)
    /\ Len(root.parts) = 2
    /\ Len(root.parts[1].parts) = 1
    /\ text_parts = <<TextHi, TextYo, TextHi>>
    /\ body = TextHi \o Separator \o TextYo \o Separator \o TextHi

\* C3, as claimed: whenever the root's direct data is present, the call
\* ends as _decode_part on that data does and returns what it returns,
\* whatever the root's parts.
C3_DirectDataPresentWins ==
    (Extracted /\ root.has_data)
        => /\ (pc = "raised") = _decode_part(root.data).raised
           /\ body = _decode_part(root.data).text

\* C3, amended: whenever the root's direct data is present and not empty,
\* the call ends as _decode_part on that data does and returns what it
\* returns, whatever the root's parts: no part is collected.
C3_DirectDataNonEmptyWins ==
    (Extracted /\ root.has_data /\ root.data # << >>)
        => /\ (pc = "raised") = _decode_part(root.data).raised
           /\ body = _decode_part(root.data).text
           /\ text_parts = << >>
           /\ html_parts = << >>

\* Direct data "hi" on a root whose first part is text/plain "yo".
C3_Witness ==
    /\ pc = "extracted"
    /\ root.has_data /\ root.data = DataHi
    /\ Len(root.parts) >= 1
    /\ IsOfType(root.parts[1], "text/plain") /\ root.parts[1].data = DataYo
    /\ body = TextHi

\* C4: without direct data on the root, once a text/plain part with data
\* has been visited in the two levels, the call returns the decoded
\* text/plain texts joined by a blank line, whatever text/html parts there
\* are and wherever they sit.
C4_PlainTextIsReturned ==
    (Extracted /\ ~Truthy(root) /\ text_parts # << >>)
        => /\ pc = "extracted"
           /\ body = Join(Separator, Texts(DepthFirst(root), "text/plain"))

\* C5: without direct data on the root, with no text/plain part in the two
\* levels and a text/html part collected, the call returns the stripped
\* text of the first text/html part, whatever the later ones.
C5_FirstHtmlIsReturned ==
    (/\ Extracted
     /\ ~Truthy(root)
     /\ OfType(DepthFirst(root), "text/plain") = << >>
     /\ html_parts # << >>)
        => /\ pc = "extracted"
           /\ body = get_text(html_parts[1]).text
           /\ html_parts[1] = Texts(DepthFirst(root), "text/html")[1]

\* C6: without direct data on the root, the parts deeper than the second
\* level change nothing: the call ends and returns as it does on the
\* payload cut to two levels, and when neither level holds a text/plain or
\* text/html part with data it returns "(No readable body found)", whatever
\* lies deeper.
C6_DeeperPartsNeverContribute ==
    (Extracted /\ ~Truthy(root))
        => /\ LET cut == extract_body_from_payload(TwoLevels(root)) IN
                /\ (pc = "raised") = cut.raised
                /\ body = cut.text
                /\ text_parts = cut.text_parts
                /\ html_parts = cut.html_parts
           /\ (/\ OfType(DepthFirst(root), "text/plain") = << >>
               /\ OfType(DepthFirst(root), "text/html") = << >>)
                 => (pc = "extracted" /\ body = NoReadableBody)

\* Two nested containers without data and a text part with data on the
\* third level: the sentinel.
C6_Witness ==
    /\ pc = "extracted"
    /\ ~Truthy(root)
    /\ DeepText(root)
    /\ \A k \in 1..Len(DepthFirst(root)) : ~DepthFirst(root)[k].has_data
    /\ body = NoReadableBody

(***************************************************************************)
(* The properties of the header lookup (SpecHeaders)                       *)
(***************************************************************************)

\* The places of the headers named name, whatever the case of their letters,
\* that carry a value.
Named(headers, name) ==
    { k \in 1..Len(headers) :
        /\ headers[k].has_name
        /\ headers[k].has_value
        /\ Len(headers[k].name) = Len(name)
        /\ \A c \in 1..Len(name) :
             \/ headers[k].name[c] = name[c]
             \/ \E l \in 1..26 : UpperCase[l] = headers[k].name[c]
                                 /\ LowerCase[l] = name[c] }

Last(S) == CHOOSE k \in S : \A other \in S : other <= k

IsRelevant(h) == HeaderName(h) = NameSubject \/ HeaderName(h) = NameFrom

\* C9: the subject is the value of a header named "Subject", the sender
\* that of a header named "From", whatever the case of the name's letters
\* (of the last such header that carries a value); without one they are
\* "(No Subject)" and "(Unknown Sender)"; headers of other names change
\* neither.
C9_HeaderLookup ==
    pc = "looked_up"
        => LET subjects == Named(mdata.headers, NameSubject)
               senders == Named(mdata.headers, NameFrom)
               others == SelectSeq(mdata.headers, LAMBDA h : ~IsRelevant(h))
               kept == SelectSeq(mdata.headers, IsRelevant)
           IN  /\ subject = IF subjects = {} THEN "(No Subject)"
                            ELSE mdata.headers[Last(subjects)].value
               /\ sender = IF senders = {} THEN "(Unknown Sender)"
                           ELSE mdata.headers[Last(senders)].value
               /\ LookupSubjectAndSender(others).subject = "(No Subject)"
               /\ LookupSubjectAndSender(others).sender = "(Unknown Sender)"
               /\ LookupSubjectAndSender(kept).subject = subject
               /\ LookupSubjectAndSender(kept).sender = sender

\* "SUBJECT" and "fROM" among the headers, and a header of another name.
C9_Witness ==
    /\ pc = "looked_up"
    /\ Len(mdata.headers) = 3
    /\ \E k \in 1..3 : mdata.headers[k].name = << "S","U","B","J","E","C","T" >>
    /\ \E k \in 1..3 : mdata.headers[k].name = << "f","R","O","M" >>
    /\ \E k \in 1..3 : mdata.headers[k].name = << "T","o" >>
    /\ subject = "Re: hello"
    /\ sender = "bob@example.test"

(***************************************************************************)
(* The properties of fetch_unread_emails (Spec)                            *)
(***************************************************************************)

Gets == SelectSeq(requests, LAMBDA r : r.op = "get")

\* C7: what fetch_unread_emails returns holds one record per identifier the
\* mailbox listed, in the listing's order, the k-th record with the k-th
\* identifier; an empty listing gives an empty sequence.  While the call
\* runs the records are those of the first identifiers.
C7_OneRecordPerListedId ==
    /\ Len(results) <= Len(listing)
    /\ \A k \in 1..Len(results) : results[k].id = listing[k]
    /\ pc = "done" => Len(results) = Len(listing)

\* Three identifiers listed for max_results 5, three records returned.
C7_Witness ==
    /\ pc = "done"
    /\ max_results = 5
    /\ Len(listing) = 3
    /\ Len(results) = 3
    /\ \A k \in 1..3 : results[k].id = listing[k]

\* C8: no silent partial result: once a request to the mailbox has failed
\* the call has ended with the exception and returns nothing, and a call
\* that returns has a record for every listed identifier.
C8_NoSilentPartialResult ==
    /\ (\E k \in 1..Len(requests) : ~requests[k].ok)
          => (pc = "raised" /\ error = "HttpError")
    /\ pc = "done"
          => /\ Len(results) = Len(listing)
             /\ \A k \in 1..Len(requests) : requests[k].ok

\* The second of two messages fails to come: the call ends with the
\* exception, the record of the first is not returned.
C8_Witness ==
    /\ pc = "raised"
    /\ error = "HttpError"
    /\ Len(listing) >= 2
    /\ Len(results) = 1
    /\ Len(Gets) = 2
    /\ ~requests[Len(requests)].ok

\* C10: the mailbox is asked for the listing once and first; then for the
\* messages one at a time in the listing's order, each identifier once and
\* none that was not listed; the message after the k-th is asked for only
\* when the k-th has been fetched, extracted and its record appended.
C10_SequentialInListingOrder ==
    /\ requests # << >> =>
         /\ requests[1].op = "list"
         /\ \A k \in 2..Len(requests) :
              /\ requests[k].op = "get"
              /\ k - 1 <= Len(listing)
              /\ requests[k].arg = listing[k - 1]
    /\ \A a, b \in 1..Len(Gets) : a # b => Gets[a].arg # Gets[b].arg
    /\ Len(Gets) <= Len(results) + 1
    /\ pc \in {"loop", "done"} => Len(Gets) = Len(results)
    /\ pc \in {"fetched", "looked_up", "extracted"} => Len(Gets) = Len(results) + 1
    /\ pc = "start" => requests = << >>

\* The listing and three messages asked for, the third being extracted.
C10_Witness ==
    /\ pc = "looked_up"
    /\ Len(requests) = 4
    /\ Len(results) = 2
    /\ requests[4].arg = listing[3]

====
